---- MODULE Spec2Model ----
(***************************************************************************)
(* Conformance result trees of upb-zig: the canonical "all tests pass"     *)
(* tree built from the all-fail testee's listing, the per-implementation   *)
(* copies with the failing tests flipped, and the section counts of the    *)
(* comparison table; the cells and badges rendered from the counts; log    *)
(* mode, which classifies the failure lines of a conformance log and       *)
(* counts them by category; and the update and the check of the table      *)
(* between the two markers of the README.                                  *)
(*                                                                         *)
(* Python values are modelled as they are stored: a str is a sequence of   *)
(* one-character strings, a dict is an object on a heap (a sequence of     *)
(* objects, the reference being the index), and a dict entry holds either  *)
(* a bool or a reference to another dict.  Mutation is an update of the    *)
(* heap, so two names for one dict see each other's writes.                *)
(***************************************************************************)
EXTENDS Integers, Sequences, FiniteSets, TLC

\* ------------------------------------------------------------------ bounds
\* most lines of the all-tests listing
MaxListing == 2
\* most lines of one implementation's failure listing
MaxFails == 2
\* most lines of one worker's failure listing when the two diffs interleave
MaxParFails == 1
\* most lines of a conformance log
MaxLog == 2
\* largest passing and total count of a rendered cell or badge
MaxCount == 4
\* how far, in tenths of a percent, a badge percentage lies outside 0..100
MaxOver == 20

\* ------------------------------------------------------------------ str
\* A str is the sequence of its characters, a character a string of one
\* character; a character that a string of this language cannot hold is
\* written as its code point, "U+000B".
\* the segments test identifiers are made of
A == <<"a">>
B == <<"b">>
Dot == <<".">>
NewLine == <<"\n">>
\* the characters str.strip() removes: those str.isspace() holds for
Whitespace ==
  {"\t", "\n", "U+000B", "\f", "\r", "U+001C", "U+001D", "U+001E", "U+001F", " ",
   "U+0085", "U+00A0", "U+1680", "U+2000", "U+2001", "U+2002", "U+2003", "U+2004",
   "U+2005", "U+2006", "U+2007", "U+2008", "U+2009", "U+200A", "U+2028", "U+2029",
   "U+202F", "U+205F", "U+3000"}
CommentSep == <<" ", "#", " ">>
\* "--add /failing_tests.txt"
AddMarker ==
  <<"-", "-", "a", "d", "d", " ", "/", "f", "a", "i", "l", "i", "n", "g", "_",
    "t", "e", "s", "t", "s", ".", "t", "x", "t">>
\* "Failed to open file: /failing_tests.txt"
FailedToOpenMarker ==
  <<"F", "a", "i", "l", "e", "d", " ", "t", "o", " ", "o", "p", "e", "n", " ",
    "f", "i", "l", "e", ":", " ", "/", "f", "a", "i", "l", "i", "n", "g", "_",
    "t", "e", "s", "t", "s", ".", "t", "x", "t">>

SeqsUpTo(S, n) == UNION {[1..k -> S] : k \in 0..n}
Last(s) == s[Len(s)]
Front(s) == SubSeq(s, 1, Len(s) - 1)

\* s[j:j+len(sep)] == sep, 1-based
IsAt(s, sep, j) ==
  /\ j + Len(sep) - 1 <= Len(s)
  /\ \A k \in 1..Len(sep) : s[j + k - 1] = sep[k]

\* the least index of a non-empty set of indices
First(S) == CHOOSE i \in S : \A j \in S : i <= j

\* the first index >= j where sep occurs in s, 0 when there is none
find_from(s, sep, j) ==
  LET hits == {k \in j..(Len(s) - Len(sep) + 1) : IsAt(s, sep, k)}
  IN IF hits = {} THEN 0 ELSE First(hits)

\* str.find(sep), 1-based, 0 when absent
find(s, sep) == find_from(s, sep, 1)

\* str.split(sep) for a non-empty separator: never an empty list
RECURSIVE split(_, _)
split(s, sep) ==
  LET j == find(s, sep)
  IN IF j = 0 THEN <<s>>
     ELSE <<SubSeq(s, 1, j - 1)>> \o split(SubSeq(s, j + Len(sep), Len(s)), sep)

\* s without the characters of chars at its start, at its end
RECURSIVE lstrip_of(_, _)
lstrip_of(s, chars) == IF s = <<>> \/ Head(s) \notin chars THEN s ELSE lstrip_of(Tail(s), chars)
RECURSIVE rstrip_of(_, _)
rstrip_of(s, chars) == IF s = <<>> \/ Last(s) \notin chars THEN s ELSE rstrip_of(Front(s), chars)

\* str.lstrip() and str.rstrip()
lstrip(s) == lstrip_of(s, Whitespace)
rstrip(s) == rstrip_of(s, Whitespace)

\* str.strip()
strip(s) == rstrip(lstrip(s))

\* sep.join(parts)
RECURSIVE join(_, _)
join(parts, sep) ==
  IF Len(parts) = 0 THEN <<>>
  ELSE IF Len(parts) = 1 THEN parts[1]
  ELSE parts[1] \o sep \o join(Tail(parts), sep)

\* the exceptions, by type and message
NoError == "ok"
TypeErrorExpectedDict == "TypeError: Expected dict"
KeyErrorMissingComponent == "KeyError: Missing path component"
KeyErrorMissingLeaf == "KeyError: Missing leaf"

\* pull_out_failing_tests, its last three lines: the lines of the text between
\* the markers, each without its " # " comment
payload_lines(middle) ==
  LET lines == split(middle, NewLine)
  IN [i \in 1..Len(lines) |-> strip(split(lines[i], CommentSep)[1])]

\* pull_out_failing_tests: the lines between the two markers, comments dropped
pull_out_failing_tests(as_str) ==
  LET halves == split(as_str, AddMarker)
  IN IF Len(halves) < 2 THEN [err |-> "IndexError", lines |-> <<>>]
     ELSE LET second_half == strip(halves[2])
              middle == strip(split(second_half, FailedToOpenMarker)[1])
          IN [err |-> NoError, lines |-> payload_lines(middle)]

\* the runner output that lists `lines`
ListingText(lines) ==
  AddMarker \o NewLine \o join(lines, NewLine) \o NewLine \o FailedToOpenMarker \o NewLine

\* ------------------------------------------------------------------ heap
\* a dict entry: a bool, or a reference to a dict of the heap
Leaf(b) == [isleaf |-> TRUE, val |-> b, ref |-> 0]
Ref(n) == [isleaf |-> FALSE, val |-> FALSE, ref |-> n]
EmptyDict == <<>>
isinstance_dict(h, v) == ~v.isleaf

\* d[k] = v
Put(d, k, v) == [x \in (DOMAIN d) \cup {k} |-> IF x = k THEN v ELSE d[x]]

\* the value a reference denotes, as nested data
RECURSIVE TreeOf(_, _)
TreeOf(h, v) ==
  IF v.isleaf THEN [isleaf |-> TRUE, val |-> v.val, kids |-> <<>>]
  ELSE [isleaf |-> FALSE, val |-> FALSE,
        kids |-> [k \in DOMAIN h[v.ref] |-> TreeOf(h, h[v.ref][k])]]

\* the dicts reachable from dict n
RECURSIVE Reach(_, _)
Reach(h, n) ==
  {n} \cup UNION {Reach(h, h[n][k].ref) : k \in {x \in DOMAIN h[n] : ~h[n][x].isleaf}}

\* copy.copy in place of copy.deepcopy: a new top-level dict, the nested dicts shared
shallow_copy(h, v) ==
  IF v.isleaf THEN [heap |-> h, val |-> v]
  ELSE [heap |-> Append(h, h[v.ref]), val |-> Ref(Len(h) + 1)]

\* copy.deepcopy: every reachable dict is allocated anew, in the order of the originals
deepcopy(h, v) ==
  IF v.isleaf THEN [heap |-> h, val |-> v]
  ELSE LET R == Reach(h, v.ref)
           rank(n) == Cardinality({m \in R : m <= n})
           new(n) == Len(h) + rank(n)
           old(i) == CHOOSE n \in R : rank(n) = i
           copyDict(d) == [k \in DOMAIN d |->
                             IF d[k].isleaf THEN d[k] ELSE Ref(new(d[k].ref))]
       IN [heap |-> h \o [i \in 1..Cardinality(R) |-> copyDict(h[old(i)])],
           val |-> Ref(new(v.ref))]

\* ------------------------------------------------------------------ insert
\* `node[key] = {}` in place of setdefault, and no assert: whatever the key held
\* is replaced by a new dict
RECURSIVE assign_walk(_, _, _, _)
assign_walk(h, node, keys, i) ==
  IF i > Len(keys) THEN [heap |-> h, node |-> node, err |-> NoError]
  ELSE LET n == Len(h) + 1
           h1 == Append([h EXCEPT ![node.ref] = Put(@, keys[i], Ref(n))], EmptyDict)
       IN assign_walk(h1, Ref(n), keys, i + 1)

\* for key in parts[:-1]: assert isinstance(node, dict); node = node.setdefault(key, {})
RECURSIVE setdefault_walk(_, _, _, _)
setdefault_walk(h, node, keys, i) ==
  IF i > Len(keys) THEN [heap |-> h, node |-> node, err |-> NoError]
  ELSE IF ~isinstance_dict(h, node)
    THEN [heap |-> h, node |-> node, err |-> "AssertionError"]
  ELSE LET d == h[node.ref]
           key == keys[i]
       IN IF key \in DOMAIN d THEN setdefault_walk(h, d[key], keys, i + 1)
          ELSE LET n == Len(h) + 1
                   h1 == Append([h EXCEPT ![node.ref] = Put(d, key, Ref(n))], EmptyDict)
               IN setdefault_walk(h1, Ref(n), keys, i + 1)

\* tests_parser.add_path(tree, parts): node[parts[-1]] = True
add_path(h, tree, parts) ==
  LET w == setdefault_walk(h, tree, Front(parts), 1)
  IN IF w.err # NoError THEN [heap |-> w.heap, err |-> w.err]
     ELSE IF ~isinstance_dict(w.heap, w.node)
       THEN [heap |-> w.heap, err |-> "AssertionError"]
     ELSE [heap |-> [w.heap EXCEPT ![w.node.ref] = Put(@, Last(parts), Leaf(TRUE))],
           err |-> NoError]

\* an insert that refuses a test it already holds
set_test_result_new_only(h, tree, test, result) ==
  LET parts == split(test, Dot)
      w == setdefault_walk(h, tree, Front(parts), 1)
  IN IF w.err # NoError THEN [heap |-> w.heap, err |-> w.err]
     ELSE IF ~isinstance_dict(w.heap, w.node)
       THEN [heap |-> w.heap, err |-> "AssertionError"]
     ELSE IF Last(parts) \in DOMAIN w.heap[w.node.ref]
       THEN [heap |-> w.heap, err |-> "KeyError"]
     ELSE [heap |-> [w.heap EXCEPT ![w.node.ref] = Put(@, Last(parts), Leaf(result))],
           err |-> NoError]

\* set_test_result(tree, test, result): mutates tree
set_test_result(h, tree, test, result) ==
  LET parts == split(test, Dot)
      w == setdefault_walk(h, tree, Front(parts), 1)
  IN IF w.err # NoError THEN [heap |-> w.heap, err |-> w.err]
     ELSE IF ~isinstance_dict(w.heap, w.node)
       THEN [heap |-> w.heap, err |-> "AssertionError"]
     ELSE [heap |-> [w.heap EXCEPT ![w.node.ref] = Put(@, Last(parts), Leaf(result))],
           err |-> NoError]

\* ------------------------------------------------------------------ float
\* Python's float is the IEEE 754 binary64: an operation returns the double
\* nearest the exact result, a tie going to the even mantissa.  A double is
\* [neg, man, exp] of the value (-1)^neg * man * 2^exp: man a natural number of
\* exactly 53 bits, or 0 with exp = 0 for the two zeros.  Naturals of any size
\* are written in base 2^15, least limb first, no zero limb last (<<>> is 0).
\* The values of these programs lie far inside the range of the normal
\* doubles; subnormal results, infinities and NaN are not represented.

RECURSIVE big_trim(_)
big_trim(a) == IF a # <<>> /\ Last(a) = 0 THEN big_trim(Front(a)) ELSE a

RECURSIVE big_from_int(_)
big_from_int(n) == IF n = 0 THEN <<>> ELSE <<n % 32768>> \o big_from_int(n \div 32768)

RECURSIVE big_to_int(_)
big_to_int(a) == IF a = <<>> THEN 0 ELSE Head(a) + 32768 * big_to_int(Tail(a))

\* a + b + carry
RECURSIVE big_add(_, _, _)
big_add(a, b, carry) ==
  IF a = <<>> /\ b = <<>> THEN big_from_int(carry)
  ELSE LET v == (IF a = <<>> THEN 0 ELSE Head(a)) + (IF b = <<>> THEN 0 ELSE Head(b)) + carry
       IN <<v % 32768>> \o big_add(IF a = <<>> THEN a ELSE Tail(a),
                                   IF b = <<>> THEN b ELSE Tail(b), v \div 32768)

\* the limbs of a - b - borrow, for a >= b + borrow
RECURSIVE big_sub_limbs(_, _, _)
big_sub_limbs(a, b, borrow) ==
  IF a = <<>> THEN <<>>
  ELSE LET v == Head(a) - (IF b = <<>> THEN 0 ELSE Head(b)) - borrow
       IN <<IF v < 0 THEN v + 32768 ELSE v>>
            \o big_sub_limbs(Tail(a), IF b = <<>> THEN b ELSE Tail(b), IF v < 0 THEN 1 ELSE 0)

big_sub(a, b) == big_trim(big_sub_limbs(a, b, 0))

\* -1, 0, 1 as a < b, a = b, a > b
RECURSIVE big_cmp(_, _)
big_cmp(a, b) ==
  IF Len(a) # Len(b) THEN (IF Len(a) < Len(b) THEN 0 - 1 ELSE 1)
  ELSE IF a = <<>> THEN 0
  ELSE IF Last(a) # Last(b) THEN (IF Last(a) < Last(b) THEN 0 - 1 ELSE 1)
  ELSE big_cmp(Front(a), Front(b))

\* the limbs of a * k + carry, for 0 <= k <= 2^15
RECURSIVE big_mul_limbs(_, _, _)
big_mul_limbs(a, k, carry) ==
  IF a = <<>> THEN big_from_int(carry)
  ELSE LET v == Head(a) * k + carry
       IN <<v % 32768>> \o big_mul_limbs(Tail(a), k, v \div 32768)

big_mul_small(a, k) == big_trim(big_mul_limbs(a, k, 0))

\* a * limb + rest * 2^15, rest the product of a by the limbs above limb
big_mul_add(rest, a, limb) ==
  IF rest = <<>> THEN big_mul_small(a, limb)
  ELSE big_add(big_mul_small(a, limb), <<0>> \o rest, 0)

\* a * b
RECURSIVE big_mul(_, _)
big_mul(a, b) ==
  IF b = <<>> THEN <<>> ELSE big_mul_add(big_mul(a, Tail(b)), a, Head(b))

\* the number of bits of n
RECURSIVE bit_length(_)
bit_length(n) == IF n = 0 THEN 0 ELSE 1 + bit_length(n \div 2)

big_bit_length(a) == IF a = <<>> THEN 0 ELSE 15 * (Len(a) - 1) + bit_length(Last(a))

\* the limb i of a, 0 outside a
big_limb(a, i) == IF i >= 1 /\ i <= Len(a) THEN a[i] ELSE 0

\* a * 2^n: each limb moves n \div 15 places up, its bits n % 15 places up
big_shl(a, n) ==
  big_trim([i \in 1..(IF a = <<>> THEN 0 ELSE Len(a) + (n \div 15) + 1) |->
              ((big_limb(a, i - (n \div 15)) * 2 ^ (n % 15)) % 32768)
                + (big_limb(a, i - (n \div 15) - 1) \div 2 ^ (15 - (n % 15)))])

\* a \div 2^n, and whether a bit was dropped
big_shr(a, n) ==
  [quot |-> big_trim([i \in 1..(Len(a) - (n \div 15)) |->
                        (big_limb(a, i + (n \div 15)) \div 2 ^ (n % 15))
                          + (big_limb(a, i + (n \div 15) + 1) % 2 ^ (n % 15))
                              * 2 ^ (15 - (n % 15))]),
   inexact |-> \/ (big_limb(a, (n \div 15) + 1) % 2 ^ (n % 15)) # 0
               \/ \E i \in 1..(n \div 15) : big_limb(a, i) # 0]

\* the number of bits of a limb that are divided by k in one step: the
\* remainder of the step before, below k, with as many bits more stays below 2^31
div_bits(k) ==
  IF k <= 65536 THEN 15 ELSE IF k <= 67108864 THEN 5 ELSE IF k <= 268435456 THEN 3 ELSE 1

\* one step of the long division by k: the quotient and the remainder of
\* r * 2^c + chunk, for r < k and chunk < 2^c
div_step(r, chunk, k, c) ==
  IF c > 1 THEN [q |-> ((r * 2 ^ c) + chunk) \div k, r |-> ((r * 2 ^ c) + chunk) % k]
  ELSE IF r >= k - r - chunk THEN [q |-> 1, r |-> r - (k - r - chunk)]
  ELSE [q |-> 0, r |-> r + r + chunk]

RECURSIVE div_limb(_, _, _, _, _)
\* the quotient q of a chunk before the quotient of the i - 1 chunks after it
div_limb_join(q, rest, c, i) == [q |-> q * 2 ^ (c * (i - 1)) + rest.q, r |-> rest.r]

\* the chunks after the step s
div_limb_after(s, limb, k, c, i) ==
  div_limb_join(s.q, div_limb(s.r, limb, k, c, i - 1), c, i)

\* the long division by k of the low i chunks of c bits of limb after the
\* remainder r
div_limb(r, limb, k, c, i) ==
  IF i = 0 THEN [q |-> 0, r |-> r]
  ELSE div_limb_after(div_step(r, (limb \div 2 ^ (c * (i - 1))) % (2 ^ c), k, c),
                      limb, k, c, i)

RECURSIVE big_div_limbs(_, _)
\* the quotient d.q of a limb below the limbs quot of the quotient above it
big_div_join(d, quot) == [quot |-> <<d.q>> \o quot, rem |-> d.r]

\* the division of a limb after the quotient and the remainder hi of the limbs
\* above it; nothing carried and a limb below k is the remainder itself
big_div_low(hi, limb, k) ==
  IF hi.rem = 0 /\ limb < k THEN [quot |-> <<0>> \o hi.quot, rem |-> limb]
  ELSE big_div_join(div_limb(hi.rem, limb, k, div_bits(k), 15 \div div_bits(k)), hi.quot)

\* the limbs of a \div k and a % k, for k > 0
big_div_limbs(a, k) ==
  IF a = <<>> THEN [quot |-> <<>>, rem |-> 0]
  ELSE big_div_low(big_div_limbs(Tail(a), k), Head(a), k)

big_divmod_trim(d) == [quot |-> big_trim(d.quot), rem |-> d.rem]

\* divmod(a, k) for an int k > 0
big_divmod(a, k) == big_divmod_trim(big_div_limbs(a, k))

\* quot, or the natural after it: quot + 1/2 + f when half, 0 < f < 1/2 when
\* inexact, rounded to the nearest natural, a tie to the even one
big_round_half(quot, half, inexact) ==
  IF half /\ (inexact \/ (quot # <<>> /\ Head(quot) % 2 = 1)) THEN big_add(quot, <<>>, 1)
  ELSE quot

\* s, twice the value and a bit to drop, rounded
big_round_shifted(s, sticky) ==
  big_round_half(big_shr(s.quot, 1).quot, s.quot # <<>> /\ Head(s.quot) % 2 = 1,
                 s.inexact \/ sticky)

\* a * 2^-n rounded to the nearest natural, a tie to the even one (n > 0)
big_round_shr(a, n, sticky) == big_round_shifted(big_shr(a, n - 1), sticky)

\* 0.0 and -0.0
float_zero(neg) == [neg |-> neg, man |-> <<>>, exp |-> 0]

\* the mantissa m rounded to 53 bits, or to 2^53 when the rounding carried
round_carried(neg, m, exp) ==
  IF big_bit_length(m) > 53 THEN [neg |-> neg, man |-> big_shr(m, 1).quot, exp |-> exp + 1]
  ELSE [neg |-> neg, man |-> m, exp |-> exp]

\* round_nearest for a man of n bits
round_sized(neg, man, exp, sticky, n) ==
  IF man = <<>> THEN float_zero(neg)
  ELSE IF n <= 53 THEN [neg |-> neg, man |-> big_shl(man, 53 - n), exp |-> exp - (53 - n)]
  ELSE round_carried(neg, big_round_shr(man, n - 53, sticky), exp + (n - 53))

\* the double nearest (-1)^neg * (man + f) * 2^exp, where f = 0, or 0 < f < 1
\* when sticky (man then has 54 bits or more)
round_nearest(neg, man, exp, sticky) ==
  round_sized(neg, man, exp, sticky, big_bit_length(man))

\* float(k) of an int
float(k) == round_nearest(k < 0, big_from_int(IF k < 0 THEN 0 - k ELSE k), 0, FALSE)

\* x * y
float_mul(x, y) == round_nearest(x.neg # y.neg, big_mul(x.man, y.man), x.exp + y.exp, FALSE)

\* the quotient d.quot and whether a remainder is left, rounded
float_truediv_rounded(neg, d, exp) == round_nearest(neg, d.quot, exp, d.rem # 0)

\* x / k for an int k # 0; passing / total of two ints is float(passing) / total
float_truediv(x, k) ==
  float_truediv_rounded(x.neg # (k < 0),
                        big_divmod(big_shl(x.man, 33), IF k < 0 THEN 0 - k ELSE k),
                        x.exp - 33)

\* x + y of two doubles other than zero, their mantissas a and b scaled to the
\* exponent e, a < b, a = b or a > b as c is -1, 0 or 1
float_add_signed(x, y, a, b, e, c) ==
  IF x.neg = y.neg THEN round_nearest(x.neg, big_add(a, b, 0), e, FALSE)
  ELSE IF c = 0 THEN float_zero(FALSE)
  ELSE IF c > 0 THEN round_nearest(x.neg, big_sub(a, b), e, FALSE)
  ELSE round_nearest(y.neg, big_sub(b, a), e, FALSE)

\* x + y, the mantissas a and b scaled to the exponent e
float_add_aligned(x, y, a, b, e) == float_add_signed(x, y, a, b, e, big_cmp(a, b))

\* x + y at the exponent e, the lower of the two
float_add_scaled(x, y, e) ==
  float_add_aligned(x, y, big_shl(x.man, x.exp - e), big_shl(y.man, y.exp - e), e)

\* x + y
float_add(x, y) ==
  IF x.man = <<>> /\ y.man = <<>> THEN float_zero(x.neg /\ y.neg)
  ELSE IF x.man = <<>> THEN y
  ELSE IF y.man = <<>> THEN x
  ELSE float_add_scaled(x, y, IF x.exp < y.exp THEN x.exp ELSE y.exp)

\* x - y
float_sub(x, y) == float_add(x, [y EXCEPT !.neg = ~y.neg])

\* float_cmp, mag comparing |x| and |y| when neither is zero
float_cmp_signed(x, y, mag) ==
  IF x.man = <<>> /\ y.man = <<>> THEN 0
  ELSE IF x.man = <<>> THEN (IF y.neg THEN 1 ELSE 0 - 1)
  ELSE IF y.man = <<>> THEN (IF x.neg THEN 0 - 1 ELSE 1)
  ELSE IF x.neg # y.neg THEN (IF x.neg THEN 0 - 1 ELSE 1)
  ELSE IF x.neg THEN 0 - mag ELSE mag

\* -1, 0, 1 as x < y, x == y, x > y
float_cmp(x, y) ==
  float_cmp_signed(x, y, IF x.exp # y.exp THEN (IF x.exp < y.exp THEN 0 - 1 ELSE 1)
                         ELSE big_cmp(x.man, y.man))

\* |x| with the fraction dropped
float_floor_abs(x) ==
  IF x.exp >= 0 THEN big_shl(x.man, x.exp) ELSE big_shr(x.man, 0 - x.exp).quot

\* ------------------------------------------------------------------ counts
RECURSIVE SumOver(_, _)
SumOver(f, S) ==
  IF S = {} THEN 0
  ELSE LET x == CHOOSE y \in S : TRUE IN f[x] + SumOver(f, S \ {x})

\* len(tree) in place of the recursive sum: the entries of the dict itself
count_tests_len(h, tree) ==
  IF isinstance_dict(h, tree) THEN Cardinality(DOMAIN h[tree.ref]) ELSE 1

\* count_tests(tree): 1 per bool, the sum over the values of a dict
RECURSIVE count_tests(_, _)
count_tests(h, tree) ==
  IF isinstance_dict(h, tree)
    THEN SumOver([k \in DOMAIN h[tree.ref] |-> count_tests(h, h[tree.ref][k])],
                 DOMAIN h[tree.ref])
  ELSE 1

\* count_passing_tests that counts every bool, as count_tests does
RECURSIVE count_passing_tests_any(_, _)
count_passing_tests_any(h, tree) ==
  IF isinstance_dict(h, tree)
    THEN SumOver([k \in DOMAIN h[tree.ref] |-> count_passing_tests_any(h, h[tree.ref][k])],
                 DOMAIN h[tree.ref])
  ELSE 1

\* count_passing_tests(tree): int(tree) per bool
RECURSIVE count_passing_tests(_, _)
count_passing_tests(h, tree) ==
  IF isinstance_dict(h, tree)
    THEN SumOver([k \in DOMAIN h[tree.ref] |-> count_passing_tests(h, h[tree.ref][k])],
                 DOMAIN h[tree.ref])
  ELSE IF tree.val THEN 1 ELSE 0

\* section_result(tree)
section_result(h, tree) ==
  [total |-> count_tests(h, tree), passing |-> count_passing_tests(h, tree)]

\* SectionResult.percent_passing: passing / total * 100
percent_passing(total, passing) ==
  IF total = 0 THEN [err |-> "ZeroDivisionError", val |-> float_zero(FALSE)]
  ELSE [err |-> NoError,
        val |-> float_mul(float_truediv(float(passing), total), float(100))]

\* ------------------------------------------------------------------ numbers as text
Digits == <<"0", "1", "2", "3", "4", "5", "6", "7", "8", "9">>
HexDigits == Digits \o <<"a", "b", "c", "d", "e", "f">>

\* str(n), f"{n}" of a non-negative int
RECURSIVE str_nat(_)
str_nat(n) ==
  IF n < 10 THEN <<Digits[n + 1]>>
  ELSE Append(str_nat(n \div 10), Digits[(n % 10) + 1])

\* str(n), f"{n}" of an int
str_int(n) == IF n < 0 THEN <<"-">> \o str_nat(0 - n) ELSE str_nat(n)

\* the decimal digits int() and the pattern \d accept (Unicode 14.0.0, category
\* Nd): each row the digits 0 to 9 of one script
DecimalDigits ==
  << Digits,
     <<"U+0660", "U+0661", "U+0662", "U+0663", "U+0664", "U+0665", "U+0666", "U+0667", "U+0668", "U+0669">>,
     <<"U+06F0", "U+06F1", "U+06F2", "U+06F3", "U+06F4", "U+06F5", "U+06F6", "U+06F7", "U+06F8", "U+06F9">>,
     <<"U+07C0", "U+07C1", "U+07C2", "U+07C3", "U+07C4", "U+07C5", "U+07C6", "U+07C7", "U+07C8", "U+07C9">>,
     <<"U+0966", "U+0967", "U+0968", "U+0969", "U+096A", "U+096B", "U+096C", "U+096D", "U+096E", "U+096F">>,
     <<"U+09E6", "U+09E7", "U+09E8", "U+09E9", "U+09EA", "U+09EB", "U+09EC", "U+09ED", "U+09EE", "U+09EF">>,
     <<"U+0A66", "U+0A67", "U+0A68", "U+0A69", "U+0A6A", "U+0A6B", "U+0A6C", "U+0A6D", "U+0A6E", "U+0A6F">>,
     <<"U+0AE6", "U+0AE7", "U+0AE8", "U+0AE9", "U+0AEA", "U+0AEB", "U+0AEC", "U+0AED", "U+0AEE", "U+0AEF">>,
     <<"U+0B66", "U+0B67", "U+0B68", "U+0B69", "U+0B6A", "U+0B6B", "U+0B6C", "U+0B6D", "U+0B6E", "U+0B6F">>,
     <<"U+0BE6", "U+0BE7", "U+0BE8", "U+0BE9", "U+0BEA", "U+0BEB", "U+0BEC", "U+0BED", "U+0BEE", "U+0BEF">>,
     <<"U+0C66", "U+0C67", "U+0C68", "U+0C69", "U+0C6A", "U+0C6B", "U+0C6C", "U+0C6D", "U+0C6E", "U+0C6F">>,
     <<"U+0CE6", "U+0CE7", "U+0CE8", "U+0CE9", "U+0CEA", "U+0CEB", "U+0CEC", "U+0CED", "U+0CEE", "U+0CEF">>,
     <<"U+0D66", "U+0D67", "U+0D68", "U+0D69", "U+0D6A", "U+0D6B", "U+0D6C", "U+0D6D", "U+0D6E", "U+0D6F">>,
     <<"U+0DE6", "U+0DE7", "U+0DE8", "U+0DE9", "U+0DEA", "U+0DEB", "U+0DEC", "U+0DED", "U+0DEE", "U+0DEF">>,
     <<"U+0E50", "U+0E51", "U+0E52", "U+0E53", "U+0E54", "U+0E55", "U+0E56", "U+0E57", "U+0E58", "U+0E59">>,
     <<"U+0ED0", "U+0ED1", "U+0ED2", "U+0ED3", "U+0ED4", "U+0ED5", "U+0ED6", "U+0ED7", "U+0ED8", "U+0ED9">>,
     <<"U+0F20", "U+0F21", "U+0F22", "U+0F23", "U+0F24", "U+0F25", "U+0F26", "U+0F27", "U+0F28", "U+0F29">>,
     <<"U+1040", "U+1041", "U+1042", "U+1043", "U+1044", "U+1045", "U+1046", "U+1047", "U+1048", "U+1049">>,
     <<"U+1090", "U+1091", "U+1092", "U+1093", "U+1094", "U+1095", "U+1096", "U+1097", "U+1098", "U+1099">>,
     <<"U+17E0", "U+17E1", "U+17E2", "U+17E3", "U+17E4", "U+17E5", "U+17E6", "U+17E7", "U+17E8", "U+17E9">>,
     <<"U+1810", "U+1811", "U+1812", "U+1813", "U+1814", "U+1815", "U+1816", "U+1817", "U+1818", "U+1819">>,
     <<"U+1946", "U+1947", "U+1948", "U+1949", "U+194A", "U+194B", "U+194C", "U+194D", "U+194E", "U+194F">>,
     <<"U+19D0", "U+19D1", "U+19D2", "U+19D3", "U+19D4", "U+19D5", "U+19D6", "U+19D7", "U+19D8", "U+19D9">>,
     <<"U+1A80", "U+1A81", "U+1A82", "U+1A83", "U+1A84", "U+1A85", "U+1A86", "U+1A87", "U+1A88", "U+1A89">>,
     <<"U+1A90", "U+1A91", "U+1A92", "U+1A93", "U+1A94", "U+1A95", "U+1A96", "U+1A97", "U+1A98", "U+1A99">>,
     <<"U+1B50", "U+1B51", "U+1B52", "U+1B53", "U+1B54", "U+1B55", "U+1B56", "U+1B57", "U+1B58", "U+1B59">>,
     <<"U+1BB0", "U+1BB1", "U+1BB2", "U+1BB3", "U+1BB4", "U+1BB5", "U+1BB6", "U+1BB7", "U+1BB8", "U+1BB9">>,
     <<"U+1C40", "U+1C41", "U+1C42", "U+1C43", "U+1C44", "U+1C45", "U+1C46", "U+1C47", "U+1C48", "U+1C49">>,
     <<"U+1C50", "U+1C51", "U+1C52", "U+1C53", "U+1C54", "U+1C55", "U+1C56", "U+1C57", "U+1C58", "U+1C59">>,
     <<"U+A620", "U+A621", "U+A622", "U+A623", "U+A624", "U+A625", "U+A626", "U+A627", "U+A628", "U+A629">>,
     <<"U+A8D0", "U+A8D1", "U+A8D2", "U+A8D3", "U+A8D4", "U+A8D5", "U+A8D6", "U+A8D7", "U+A8D8", "U+A8D9">>,
     <<"U+A900", "U+A901", "U+A902", "U+A903", "U+A904", "U+A905", "U+A906", "U+A907", "U+A908", "U+A909">>,
     <<"U+A9D0", "U+A9D1", "U+A9D2", "U+A9D3", "U+A9D4", "U+A9D5", "U+A9D6", "U+A9D7", "U+A9D8", "U+A9D9">>,
     <<"U+A9F0", "U+A9F1", "U+A9F2", "U+A9F3", "U+A9F4", "U+A9F5", "U+A9F6", "U+A9F7", "U+A9F8", "U+A9F9">>,
     <<"U+AA50", "U+AA51", "U+AA52", "U+AA53", "U+AA54", "U+AA55", "U+AA56", "U+AA57", "U+AA58", "U+AA59">>,
     <<"U+ABF0", "U+ABF1", "U+ABF2", "U+ABF3", "U+ABF4", "U+ABF5", "U+ABF6", "U+ABF7", "U+ABF8", "U+ABF9">>,
     <<"U+FF10", "U+FF11", "U+FF12", "U+FF13", "U+FF14", "U+FF15", "U+FF16", "U+FF17", "U+FF18", "U+FF19">>,
     <<"U+104A0", "U+104A1", "U+104A2", "U+104A3", "U+104A4", "U+104A5", "U+104A6", "U+104A7", "U+104A8", "U+104A9">>,
     <<"U+10D30", "U+10D31", "U+10D32", "U+10D33", "U+10D34", "U+10D35", "U+10D36", "U+10D37", "U+10D38", "U+10D39">>,
     <<"U+11066", "U+11067", "U+11068", "U+11069", "U+1106A", "U+1106B", "U+1106C", "U+1106D", "U+1106E", "U+1106F">>,
     <<"U+110F0", "U+110F1", "U+110F2", "U+110F3", "U+110F4", "U+110F5", "U+110F6", "U+110F7", "U+110F8", "U+110F9">>,
     <<"U+11136", "U+11137", "U+11138", "U+11139", "U+1113A", "U+1113B", "U+1113C", "U+1113D", "U+1113E", "U+1113F">>,
     <<"U+111D0", "U+111D1", "U+111D2", "U+111D3", "U+111D4", "U+111D5", "U+111D6", "U+111D7", "U+111D8", "U+111D9">>,
     <<"U+112F0", "U+112F1", "U+112F2", "U+112F3", "U+112F4", "U+112F5", "U+112F6", "U+112F7", "U+112F8", "U+112F9">>,
     <<"U+11450", "U+11451", "U+11452", "U+11453", "U+11454", "U+11455", "U+11456", "U+11457", "U+11458", "U+11459">>,
     <<"U+114D0", "U+114D1", "U+114D2", "U+114D3", "U+114D4", "U+114D5", "U+114D6", "U+114D7", "U+114D8", "U+114D9">>,
     <<"U+11650", "U+11651", "U+11652", "U+11653", "U+11654", "U+11655", "U+11656", "U+11657", "U+11658", "U+11659">>,
     <<"U+116C0", "U+116C1", "U+116C2", "U+116C3", "U+116C4", "U+116C5", "U+116C6", "U+116C7", "U+116C8", "U+116C9">>,
     <<"U+11730", "U+11731", "U+11732", "U+11733", "U+11734", "U+11735", "U+11736", "U+11737", "U+11738", "U+11739">>,
     <<"U+118E0", "U+118E1", "U+118E2", "U+118E3", "U+118E4", "U+118E5", "U+118E6", "U+118E7", "U+118E8", "U+118E9">>,
     <<"U+11950", "U+11951", "U+11952", "U+11953", "U+11954", "U+11955", "U+11956", "U+11957", "U+11958", "U+11959">>,
     <<"U+11C50", "U+11C51", "U+11C52", "U+11C53", "U+11C54", "U+11C55", "U+11C56", "U+11C57", "U+11C58", "U+11C59">>,
     <<"U+11D50", "U+11D51", "U+11D52", "U+11D53", "U+11D54", "U+11D55", "U+11D56", "U+11D57", "U+11D58", "U+11D59">>,
     <<"U+11DA0", "U+11DA1", "U+11DA2", "U+11DA3", "U+11DA4", "U+11DA5", "U+11DA6", "U+11DA7", "U+11DA8", "U+11DA9">>,
     <<"U+16A60", "U+16A61", "U+16A62", "U+16A63", "U+16A64", "U+16A65", "U+16A66", "U+16A67", "U+16A68", "U+16A69">>,
     <<"U+16AC0", "U+16AC1", "U+16AC2", "U+16AC3", "U+16AC4", "U+16AC5", "U+16AC6", "U+16AC7", "U+16AC8", "U+16AC9">>,
     <<"U+16B50", "U+16B51", "U+16B52", "U+16B53", "U+16B54", "U+16B55", "U+16B56", "U+16B57", "U+16B58", "U+16B59">>,
     <<"U+1D7CE", "U+1D7CF", "U+1D7D0", "U+1D7D1", "U+1D7D2", "U+1D7D3", "U+1D7D4", "U+1D7D5", "U+1D7D6", "U+1D7D7">>,
     <<"U+1D7D8", "U+1D7D9", "U+1D7DA", "U+1D7DB", "U+1D7DC", "U+1D7DD", "U+1D7DE", "U+1D7DF", "U+1D7E0", "U+1D7E1">>,
     <<"U+1D7E2", "U+1D7E3", "U+1D7E4", "U+1D7E5", "U+1D7E6", "U+1D7E7", "U+1D7E8", "U+1D7E9", "U+1D7EA", "U+1D7EB">>,
     <<"U+1D7EC", "U+1D7ED", "U+1D7EE", "U+1D7EF", "U+1D7F0", "U+1D7F1", "U+1D7F2", "U+1D7F3", "U+1D7F4", "U+1D7F5">>,
     <<"U+1D7F6", "U+1D7F7", "U+1D7F8", "U+1D7F9", "U+1D7FA", "U+1D7FB", "U+1D7FC", "U+1D7FD", "U+1D7FE", "U+1D7FF">>,
     <<"U+1E140", "U+1E141", "U+1E142", "U+1E143", "U+1E144", "U+1E145", "U+1E146", "U+1E147", "U+1E148", "U+1E149">>,
     <<"U+1E2F0", "U+1E2F1", "U+1E2F2", "U+1E2F3", "U+1E2F4", "U+1E2F5", "U+1E2F6", "U+1E2F7", "U+1E2F8", "U+1E2F9">>,
     <<"U+1E950", "U+1E951", "U+1E952", "U+1E953", "U+1E954", "U+1E955", "U+1E956", "U+1E957", "U+1E958", "U+1E959">>,
     <<"U+1FBF0", "U+1FBF1", "U+1FBF2", "U+1FBF3", "U+1FBF4", "U+1FBF5", "U+1FBF6", "U+1FBF7", "U+1FBF8", "U+1FBF9">> >>
DecimalDigitChars == UNION {{DecimalDigits[r][d] : d \in 1..10} : r \in DOMAIN DecimalDigits}

\* \d+ matches all of s
IsDigits(s) == s # <<>> /\ \A i \in DOMAIN s : s[i] \in DecimalDigitChars
DigitValue(c) ==
  (CHOOSE d \in 1..10 : \E r \in DOMAIN DecimalDigits : DecimalDigits[r][d] = c) - 1

RECURSIVE int_digits(_)
int_digits(s) ==
  IF s = <<>> THEN 0 ELSE int_digits(Front(s)) * 10 + DigitValue(Last(s))

\* the whitespace int() drops around the number: the separators U+001C to
\* U+001F are not among it
IntWhitespace == Whitespace \ {"U+001C", "U+001D", "U+001E", "U+001F"}

\* the int of the digits between the underscores, ValueError unless every
\* group is digits
int_valued(groups, negative) ==
  IF \A i \in DOMAIN groups : IsDigits(groups[i])
    THEN [err |-> NoError,
          val |-> IF negative THEN 0 - int_digits(join(groups, <<>>))
                  ELSE int_digits(join(groups, <<>>))]
  ELSE [err |-> "ValueError", val |-> 0]

\* the int of t after its sign, when it has one
int_signed(t, signed) ==
  int_valued(split(IF signed THEN Tail(t) ELSE t, <<"_">>), signed /\ Head(t) = "-")

\* the int of t, the whitespace around it dropped
int_stripped(t) == int_signed(t, t # <<>> /\ Head(t) \in {"+", "-"})

\* int(s) of a str: whitespace around, a sign, decimal digits with single
\* underscores between them; ValueError otherwise
int(s) == int_stripped(rstrip_of(lstrip_of(s, IntWhitespace), IntWhitespace))

RECURSIVE big_str(_)
\* the digits of d.quot before the digit d.rem
big_str_digits(d) ==
  IF d.quot = <<>> THEN <<Digits[d.rem + 1]>>
  ELSE Append(big_str(d.quot), Digits[d.rem + 1])

\* str(n) of a natural number of any size
big_str(a) == big_str_digits(big_divmod(a, 10))

\* the sign, the digits of d.quot, the point and the digit d.rem
format_1f_text(neg, d) ==
  (IF neg THEN <<"-">> ELSE <<>>) \o big_str(d.quot) \o <<".", Digits[d.rem + 1]>>

\* |x| * 10 rounded to a natural, a tie to the even one
format_1f_tenths(x, ten) ==
  IF x.exp >= 0 THEN big_shl(ten, x.exp) ELSE big_round_shr(ten, 0 - x.exp, FALSE)

\* f"{x:.1f}" of a float: the decimal with one digit after the point nearest
\* the exact value of the double, a tie to the even digit
format_1f(x) ==
  format_1f_text(x.neg, big_divmod(format_1f_tenths(x, big_mul_small(x.man, 10)), 10))

RECURSIVE hex_nat(_)
hex_nat(n) ==
  IF n < 16 THEN <<HexDigits[n + 1]>>
  ELSE Append(hex_nat(n \div 16), HexDigits[(n % 16) + 1])

\* f"{n:02x}"
format_02x(n) ==
  LET d == IF n < 0 THEN <<"-">> \o hex_nat(0 - n) ELSE hex_nat(n)
  IN IF Len(d) < 2 THEN <<"0">> \o d ELSE d

\* int(x) of a float: towards zero
int_float(x) ==
  IF x.neg THEN 0 - big_to_int(float_floor_abs(x)) ELSE big_to_int(float_floor_abs(x))

\* ------------------------------------------------------------------ table cells and badges
BADGE_WIDTH == 120

\* f"{percent:.1f}% ({passing}/{total})", or what percent_passing raised
SectionResult_format(percent, total, passing) ==
  IF percent.err # NoError THEN [err |-> percent.err, text |-> <<>>]
  ELSE [err |-> NoError,
        text |-> format_1f(percent.val) \o <<"%", " ", "(">>
                   \o str_int(passing) \o <<"/">> \o str_int(total) \o <<")">>]

\* SectionResult.__repr__
SectionResult_repr(total, passing) ==
  SectionResult_format(percent_passing(total, passing), total, passing)

\* SectionResult.get_badge_ref: unique_str
unique_str(passing, total) == str_int(passing) \o <<"_">> \o str_int(total)

\* _lerp(a, b, t): a + (b - a) * t
lerp(a, b, t) == float_add(float(a), float_mul(float(b - a), t))

\* max(0.0, m)
clamp_pct_low(m) == IF float_cmp(m, float_zero(FALSE)) > 0 THEN m ELSE float_zero(FALSE)

\* max(0.0, min(100.0, pct))
clamp_pct(pct) == clamp_pct_low(IF float_cmp(pct, float(100)) < 0 THEN pct ELSE float(100))

\* _bar_color below 60: from (180, 60, 55) to (200, 140, 55) as t goes 0 to 1
bar_rgb_low(t) ==
  <<int_float(lerp(180, 200, t)), int_float(lerp(60, 140, t)), int_float(lerp(55, 55, t))>>

\* _bar_color from 60 on: from (r, g, 55) to (68, 148, 68) as t goes 0 to 1
bar_rgb_high(r, g, t) ==
  <<int_float(lerp(r, 68, t)), int_float(lerp(g, 148, t)), int_float(lerp(55, 68, t))>>

\* the two segments of _bar_color for a clamped pct, the second from (r, g, 55)
bar_rgb_from(r, g, pct) ==
  IF float_cmp(pct, float(60)) < 0 THEN bar_rgb_low(float_truediv(pct, 60))
  ELSE bar_rgb_high(r, g, float_truediv(float_sub(pct, float(60)), 40))

\* the second segment starting again from the first segment's colour at 0
bar_rgb_restart(p) == bar_rgb_from(180, 60, clamp_pct(p))

\* _bar_color: r, g, b
bar_rgb(p) == bar_rgb_from(200, 140, clamp_pct(p))

\* f"#{r:02x}{g:02x}{b:02x}"
bar_color_hex(c) == <<"#">> \o format_02x(c[1]) \o format_02x(c[2]) \o format_02x(c[3])

\* _bar_color(pct)
bar_color(pct) == bar_color_hex(bar_rgb(pct))

BadgeError(e) == [err |-> e, bar_width |-> float_zero(FALSE), color |-> <<>>, text |-> <<>>]

\* f" ({passing}/{total})"
gen_percent_bar_counts(passing, total) ==
  <<" ", "(">> \o str_int(passing) \o <<"/">> \o str_int(total) \o <<")">>

\* gen_percent_bar_svg from `if passing == 0` on
gen_percent_bar_values(passing, total, percentage) ==
  IF passing = 0
    THEN [err |-> NoError,
          bar_width |-> float(BADGE_WIDTH),
          color |-> bar_color(float(10)),
          text |-> <<"N", "A">> \o gen_percent_bar_counts(passing, total)]
  ELSE [err |-> NoError,
        bar_width |-> float_truediv(float_mul(float(BADGE_WIDTH), percentage), 100),
        color |-> bar_color(percentage),
        text |-> format_1f(percentage) \o <<"%">> \o gen_percent_bar_counts(passing, total)]

\* gen_percent_bar_svg(passing, total): the values put into the svg
gen_percent_bar_svg(passing, total) ==
  IF total = 0 THEN BadgeError("ZeroDivisionError")
  ELSE gen_percent_bar_values(passing, total,
                              float_mul(float_truediv(float(passing), total), float(100)))

\* passing, total = int(passing), int(total), then the svg
update_badges_ints(passing, total) ==
  IF passing.err # NoError \/ total.err # NoError THEN BadgeError("ValueError")
  ELSE gen_percent_bar_svg(passing.val, total.val)

\* passing, total = badge.split("_")
update_badges_parts(parts) ==
  IF Len(parts) # 2 THEN BadgeError("ValueError")
  ELSE update_badges_ints(int(parts[1]), int(parts[2]))

\* update_badges, one iteration: the badge name read back from the document
update_badges(badge) == update_badges_parts(split(badge, <<"_">>))

\* ------------------------------------------------------------------ log mode: classify
Required == <<"R", "e", "q", "u", "i", "r", "e", "d">>
Recommended == <<"R", "e", "c", "o", "m", "m", "e", "n", "d", "e", "d">>
REQUIREMENT_LEVELS == {Required, Recommended}
Proto2 == <<"P", "r", "o", "t", "o", "2">>
Proto3 == <<"P", "r", "o", "t", "o", "3">>
Json == <<"J", "s", "o", "n">>
TextFormat == <<"T", "e", "x", "t", "F", "o", "r", "m", "a", "t">>
JSON == <<"J", "S", "O", "N">>
TextFormatName == <<"T", "e", "x", "t", " ", "f", "o", "r", "m", "a", "t">>
WireFormatName == <<"W", "i", "r", "e", " ", "f", "o", "r", "m", "a", "t">>

\* sub in s
str_in(sub, s) == find(s, sub) # 0

\* normalize_proto_version with the two tests in the other order
normalize_proto_version_3_first(version) ==
  IF str_in(Proto3, version) THEN Proto3
  ELSE IF str_in(Proto2, version) THEN Proto2
  ELSE version

\* normalize_proto_version(version)
normalize_proto_version(version) ==
  IF str_in(Proto2, version) THEN Proto2
  ELSE IF str_in(Proto3, version) THEN Proto3
  ELSE version

\* get_test_format(test_type)
get_test_format(test_type) ==
  IF str_in(Json, test_type) THEN JSON
  ELSE IF str_in(TextFormat, test_type) THEN TextFormatName
  ELSE WireFormatName

NoTest == [requirement_level |-> <<>>, proto_version |-> <<>>, test_format |-> <<>>]

\* from_str without the check of the requirement level
from_str_any_level(as_str) ==
  LET parts == split(as_str, Dot)
  IN IF ~(Len(parts) >= 3) THEN [err |-> "AssertionError", test |-> NoTest]
     ELSE [err |-> NoError,
           test |-> [requirement_level |-> parts[1],
                     proto_version |-> normalize_proto_version(parts[2]),
                     test_format |-> get_test_format(parts[3])]]

\* ConformanceTest.from_str(as_str)
from_str(as_str) ==
  LET parts == split(as_str, Dot)
  IN IF ~(Len(parts) >= 3) THEN [err |-> "AssertionError", test |-> NoTest]
     ELSE IF parts[1] \notin REQUIREMENT_LEVELS
       THEN [err |-> "AssertionError", test |-> NoTest]
     ELSE [err |-> NoError,
           test |-> [requirement_level |-> parts[1],
                     proto_version |-> normalize_proto_version(parts[2]),
                     test_format |-> get_test_format(parts[3])]]

\* ------------------------------------------------------------------ log mode: the log
ErrorPrefix == <<"E", "R", "R", "O", "R", ",", " ", "t", "e", "s", "t", "=">>
Colon == <<":">>
SuccessesLit == <<" ", "s", "u", "c", "c", "e", "s", "s", "e", "s", ",", " ">>
SkippedLit == <<" ", "s", "k", "i", "p", "p", "e", "d", ",", " ">>
ExpectedLit == <<" ", "e", "x", "p", "e", "c", "t", "e", "d", " ", "f", "a", "i", "l", "u", "r", "e", "s", ",", " ">>
UnexpectedLit == <<" ", "u", "n", "e", "x", "p", "e", "c", "t", "e", "d", " ", "f", "a", "i", "l", "u", "r", "e", "s">>

\* r"^ERROR, test=([^:]+):" with re.MULTILINE tried at index i: the index of the
\* closing ":", 0 when the pattern does not match there
match_error_at(s, i) ==
  LET g == i + Len(ErrorPrefix)
      c == find_from(s, Colon, g)
  IN IF /\ (i = 1 \/ s[i - 1] = "\n")
        /\ IsAt(s, ErrorPrefix, i)
        /\ c > g
       THEN c
     ELSE 0

\* re.finditer: match.group(1) of the matches from index i on, left to right
RECURSIVE finditer_error(_, _)
finditer_error(s, i) ==
  LET hits == {k \in i..Len(s) : match_error_at(s, k) # 0}
      k == First(hits)
  IN IF hits = {} THEN <<>>
     ELSE <<SubSeq(s, k + Len(ErrorPrefix), match_error_at(s, k) - 1)>>
            \o finditer_error(s, match_error_at(s, k) + 1)

\* \d+ at index i: the last index of the run of digits, i - 1 when there is none
RECURSIVE digits_end(_, _)
digits_end(s, i) ==
  IF i <= Len(s) /\ IsDigits(<<s[i]>>) THEN digits_end(s, i + 1) ELSE i - 1

\* the summary pattern tried at index i
match_summary_at(s, i) ==
  LET e1 == digits_end(s, i)
      i2 == e1 + 1 + Len(SuccessesLit)
      e2 == digits_end(s, i2)
      i3 == e2 + 1 + Len(SkippedLit)
      e3 == digits_end(s, i3)
      i4 == e3 + 1 + Len(ExpectedLit)
      e4 == digits_end(s, i4)
  IN IF /\ e1 >= i /\ IsAt(s, SuccessesLit, e1 + 1)
        /\ e2 >= i2 /\ IsAt(s, SkippedLit, e2 + 1)
        /\ e3 >= i3 /\ IsAt(s, ExpectedLit, e3 + 1)
        /\ e4 >= i4 /\ IsAt(s, UnexpectedLit, e4 + 1)
       THEN <<SubSeq(s, i, e1), SubSeq(s, i2, e2), SubSeq(s, i3, e3), SubSeq(s, i4, e4)>>
     ELSE <<>>

\* re.search of the summary pattern: the groups of the leftmost match, <<>> for None
summary_search(s) ==
  LET hits == {i \in 1..Len(s) : match_summary_at(s, i) # <<>>}
  IN IF hits = {} THEN <<>> ELSE match_summary_at(s, First(hits))

\* ConformanceResult()
ConformanceResult ==
  [failed |-> <<>>, num_passed |-> 0, skipped |-> 0,
   expected_failures |-> 0, unexpected_failures |-> 0]

\* ConformanceResult.num_failed
num_failed(result) == Len(result.failed)

\* the finditer loop: result.failed.append(ConformanceTest.from_str(...)), the
\* first raise ending it
RECURSIVE append_failed(_, _)
append_failed(failed, names) ==
  IF names = <<>> THEN [err |-> NoError, failed |-> failed]
  ELSE LET t == from_str(Head(names))
       IN IF t.err # NoError THEN [err |-> t.err, failed |-> failed]
          ELSE append_failed(Append(failed, t.test), Tail(names))

\* the result of the failure lines f and of the match of the summary pattern
parse_conformance_result(f, summary_match) ==
  IF f.err # NoError THEN [err |-> f.err, result |-> ConformanceResult]
  ELSE IF summary_match # <<>>
    THEN [err |-> NoError,
          result |-> [failed |-> f.failed,
                      num_passed |-> int(summary_match[1]).val,
                      skipped |-> int(summary_match[2]).val,
                      expected_failures |-> int(summary_match[3]).val,
                      unexpected_failures |-> int(summary_match[4]).val]]
  ELSE [err |-> NoError, result |-> [ConformanceResult EXCEPT !.failed = f.failed]]

\* parse_conformance_log(log)
parse_conformance_log(log) ==
  parse_conformance_result(append_failed(<<>>, finditer_error(log, 1)), summary_search(log))

\* ------------------------------------------------------------------ log mode: the report
\* d[k] += 1 on a defaultdict(int)
increment(d, k) == IF k \in DOMAIN d THEN [d EXCEPT ![k] = @ + 1] ELSE d @@ (k :> 1)

\* d.get(k, 0)
get(d, k) == IF k \in DOMAIN d THEN d[k] ELSE 0

\* _count_failures that counts a category once however often it fails
RECURSIVE count_failures_once(_, _, _)
count_failures_once(failed, by_category, by_req) ==
  IF failed = <<>> THEN [by_category |-> by_category, by_req |-> by_req]
  ELSE LET test == Head(failed)
           k == <<test.requirement_level, test.proto_version, test.test_format>>
       IN count_failures_once(Tail(failed),
                              IF k \in DOMAIN by_category THEN by_category
                              ELSE by_category @@ (k :> 1),
                              increment(by_req, test.requirement_level))

\* _count_failures: the loop over result.failed
RECURSIVE count_failures_loop(_, _, _)
count_failures_loop(failed, by_category, by_req) ==
  IF failed = <<>> THEN [by_category |-> by_category, by_req |-> by_req]
  ELSE LET test == Head(failed)
       IN count_failures_loop(Tail(failed),
            increment(by_category,
                      <<test.requirement_level, test.proto_version, test.test_format>>),
            increment(by_req, test.requirement_level))

\* _count_failures(result)
count_failures(result) == count_failures_loop(result.failed, <<>>, <<>>)

\* None where a str is expected, and where a ConformanceResult is expected
None == <<"None">>
NoResult == [is_none |-> TRUE]
FailuresLit == <<" ", "f", "a", "i", "l", "u", "r", "e", "s">>

\* _get_status(failed_by_category, req, proto, fmt)
get_status(failed_by_category, req, proto, fmt) ==
  LET failed == IF proto = None
                  THEN get(failed_by_category, <<req, Proto2, fmt>>)
                         + get(failed_by_category, <<req, Proto3, fmt>>)
                ELSE get(failed_by_category, <<req, proto, fmt>>)
  IN str_int(failed) \o FailuresLit

\* f"| {a} | {b} | {c} |"
table_line(a, b, c) ==
  <<"|", " ">> \o a \o <<" ", "|", " ">> \o b \o <<" ", "|", " ">> \o c \o <<" ", "|">>

NA == <<"N", "/", "A">>
req_badge == <<"!", "[", "r", "e", "q", "u", "i", "r", "e", "d", "]", "(", ".", "g", "i", "t", "h", "u", "b", "/", "b", "a", "d", "g", "e", "s", "/", "r", "e", "q", "u", "i", "r", "e", "d", ".", "s", "v", "g", ")">>
rec_badge == <<"!", "[", "r", "e", "c", "o", "m", "m", "e", "n", "d", "e", "d", "]", "(", ".", "g", "i", "t", "h", "u", "b", "/", "b", "a", "d", "g", "e", "s", "/", "r", "e", "c", "o", "m", "m", "e", "n", "d", "e", "d", ".", "s", "v", "g", ")">>
overall_badge == <<"!", "[", "o", "v", "e", "r", "a", "l", "l", "]", "(", ".", "g", "i", "t", "h", "u", "b", "/", "b", "a", "d", "g", "e", "s", "/", "o", "v", "e", "r", "a", "l", "l", ".", "s", "v", "g", ")">>
zp_req_badge == <<"!", "[", "r", "e", "q", "u", "i", "r", "e", "d", "]", "(", ".", "g", "i", "t", "h", "u", "b", "/", "b", "a", "d", "g", "e", "s", "/", "z", "i", "g", "_", "p", "r", "o", "t", "o", "b", "u", "f", "_", "r", "e", "q", "u", "i", "r", "e", "d", ".", "s", "v", "g", ")">>
zp_rec_badge == <<"!", "[", "r", "e", "c", "o", "m", "m", "e", "n", "d", "e", "d", "]", "(", ".", "g", "i", "t", "h", "u", "b", "/", "b", "a", "d", "g", "e", "s", "/", "z", "i", "g", "_", "p", "r", "o", "t", "o", "b", "u", "f", "_", "r", "e", "c", "o", "m", "m", "e", "n", "d", "e", "d", ".", "s", "v", "g", ")">>
zp_overall_badge == <<"!", "[", "o", "v", "e", "r", "a", "l", "l", "]", "(", ".", "g", "i", "t", "h", "u", "b", "/", "b", "a", "d", "g", "e", "s", "/", "z", "i", "g", "_", "p", "r", "o", "t", "o", "b", "u", "f", "_", "o", "v", "e", "r", "a", "l", "l", ".", "s", "v", "g", ")">>
TableRule == <<"|", "-", "-", "-", "-", "-", "-", "-", "-", "-", "-", "|", "-", "-", "-", "-", "-", "-", "-", "-", "-", "-", "-", "-", "-", "|", "-", "-", "-", "-", "-", "-", "-", "-", "-", "-", "-", "-", "-", "-", "|">>

\* generate_report(result, "upb-zig", zig_protobuf_result): lines
report_lines(result, zig_protobuf_result) ==
  LET upb_by_cat == count_failures(result).by_category
      zp == zig_protobuf_result # NoResult
      zp_by_cat == count_failures(zig_protobuf_result).by_category
      upb_status(req, proto, fmt) == get_status(upb_by_cat, req, proto, fmt)
      zp_status(req, proto, fmt) ==
        IF zp THEN get_status(zp_by_cat, req, proto, fmt) ELSE NA
  IN << table_line(<<"C", "a", "t", "e", "g", "o", "r", "y">>, <<"u", "p", "b", "-", "z", "i", "g">>, <<"z", "i", "g", "-", "p", "r", "o", "t", "o", "b", "u", "f">>),
        TableRule,
        table_line(<<"*", "*", "R", "e", "q", "u", "i", "r", "e", "d", "*", "*">>, req_badge, IF zp THEN zp_req_badge ELSE NA),
        table_line(<<"W", "i", "r", "e", " ", "f", "o", "r", "m", "a", "t", " ", "(", "p", "r", "o", "t", "o", "2", ")">>,
                   upb_status(Required, Proto2, WireFormatName),
                   zp_status(Required, Proto2, WireFormatName)),
        table_line(<<"W", "i", "r", "e", " ", "f", "o", "r", "m", "a", "t", " ", "(", "p", "r", "o", "t", "o", "3", ")">>,
                   upb_status(Required, Proto3, WireFormatName),
                   zp_status(Required, Proto3, WireFormatName)),
        table_line(<<"J", "S", "O", "N", " ", "(", "p", "r", "o", "t", "o", "2", ")">>,
                   upb_status(Required, Proto2, JSON), zp_status(Required, Proto2, JSON)),
        table_line(<<"J", "S", "O", "N", " ", "(", "p", "r", "o", "t", "o", "3", ")">>,
                   upb_status(Required, Proto3, JSON), zp_status(Required, Proto3, JSON)),
        table_line(<<"*", "*", "R", "e", "c", "o", "m", "m", "e", "n", "d", "e", "d", "*", "*">>, rec_badge, IF zp THEN zp_rec_badge ELSE NA),
        table_line(WireFormatName,
                   upb_status(Recommended, None, WireFormatName),
                   zp_status(Recommended, None, WireFormatName)),
        table_line(JSON,
                   upb_status(Recommended, None, JSON), zp_status(Recommended, None, JSON)),
        table_line(<<"*", "*", "O", "v", "e", "r", "a", "l", "l", "*", "*">>, overall_badge,
                   IF zp THEN zp_overall_badge ELSE NA) >>

\* generate_report: "\n".join(lines)
generate_report(result, zig_protobuf_result) ==
  join(report_lines(result, zig_protobuf_result), NewLine)

\* line.startswith("|")
startswith_bar(line) == line # <<>> /\ line[1] = "|"

\* while table_lines and table_lines[-1] == "": table_lines.pop()
RECURSIVE pop_empty(_)
pop_empty(table_lines) ==
  IF table_lines # <<>> /\ Last(table_lines) = <<>> THEN pop_empty(Front(table_lines))
  ELSE table_lines

\* extract_table_from_report(report)
extract_table_from_report(report) ==
  LET lines == split(report, NewLine)
      starts == {i \in DOMAIN lines : startswith_bar(lines[i])}
      start_idx == First(starts)
  IN IF starts = {} THEN <<>>
     ELSE join(pop_empty(SubSeq(lines, start_idx, Len(lines))), NewLine)

\* ------------------------------------------------------------------ strict set
\* for key in parts[:-1]: the key must exist in a dict
RECURSIVE existing_walk(_, _, _, _)
existing_walk(h, node, keys, i) ==
  IF i > Len(keys) THEN [node |-> node, err |-> NoError]
  ELSE IF ~isinstance_dict(h, node) THEN [node |-> node, err |-> TypeErrorExpectedDict]
  ELSE IF keys[i] \notin DOMAIN h[node.ref]
    THEN [node |-> node, err |-> KeyErrorMissingComponent]
  ELSE existing_walk(h, h[node.ref][keys[i]], keys, i + 1)

\* a strict setter whose walk uses setdefault, as set_test_result does: the missing
\* components are created before the leaf check raises
all_fail_set_test_result_existing_creating(h, tree, test, result) ==
  LET parts == split(test, Dot)
      w == setdefault_walk(h, tree, Front(parts), 1)
      leaf == Last(parts)
  IN IF w.err # NoError THEN [heap |-> w.heap, err |-> TypeErrorExpectedDict]
     ELSE IF ~isinstance_dict(w.heap, w.node)
       THEN [heap |-> w.heap, err |-> TypeErrorExpectedDict]
     ELSE IF leaf \notin DOMAIN w.heap[w.node.ref]
       THEN [heap |-> w.heap, err |-> KeyErrorMissingLeaf]
     ELSE [heap |-> [w.heap EXCEPT ![w.node.ref] = Put(@, leaf, Leaf(result))],
           err |-> NoError]

\* conformance/all_fail_testee/test_results_parser.py: set_test_result_existing
all_fail_set_test_result_existing(h, tree, test, result) ==
  LET parts == split(test, Dot)
      w == existing_walk(h, tree, Front(parts), 1)
      leaf == Last(parts)
  IN IF w.err # NoError THEN [heap |-> h, err |-> w.err]
     ELSE IF ~isinstance_dict(h, w.node) THEN [heap |-> h, err |-> TypeErrorExpectedDict]
     ELSE IF leaf \notin DOMAIN h[w.node.ref] THEN [heap |-> h, err |-> KeyErrorMissingLeaf]
     ELSE [heap |-> [h EXCEPT ![w.node.ref] = Put(@, leaf, Leaf(result))],
           err |-> NoError]

\* isinstance(test, dict) for the str `test`
isinstance_dict_str(test) == FALSE

\* conformance/test_results_parser.py: set_test_result_existing.  After the
\* walk it tests isinstance(test, dict) on the identifier string, not on the
\* node, so it raises TypeError for every identifier that survives the walk.
set_test_result_existing(h, tree, test, result) ==
  LET parts == split(test, Dot)
      w == existing_walk(h, tree, Front(parts), 1)
      leaf == Last(parts)
  IN IF w.err # NoError THEN [heap |-> h, err |-> w.err]
     ELSE IF ~isinstance_dict_str(test) THEN [heap |-> h, err |-> TypeErrorExpectedDict]
     ELSE IF find(test, leaf) = 0 /\ leaf # <<>> THEN [heap |-> h, err |-> KeyErrorMissingLeaf]
     ELSE IF ~isinstance_dict(h, w.node) THEN [heap |-> h, err |-> TypeErrorExpectedDict]
     ELSE [heap |-> [h EXCEPT ![w.node.ref] = Put(@, leaf, Leaf(result))],
           err |-> NoError]

\* get_subtree_by_path(report, path)
RECURSIVE get_subtree_by_path_from(_, _, _, _)
get_subtree_by_path_from(h, node, path, i) ==
  IF i > Len(path) THEN [node |-> node, err |-> NoError]
  ELSE IF ~isinstance_dict(h, node) THEN [node |-> node, err |-> "KeyError"]
  ELSE IF path[i] \notin DOMAIN h[node.ref] THEN [node |-> node, err |-> "KeyError"]
  ELSE IF ~isinstance_dict(h, h[node.ref][path[i]])
    THEN [node |-> h[node.ref][path[i]], err |-> "AssertionError"]
  ELSE get_subtree_by_path_from(h, h[node.ref][path[i]], path, i + 1)

get_subtree_by_path(h, report, path) == get_subtree_by_path_from(h, report, path, 1)

\* generaterate_markdown_row(path, reports): the SectionResult of each report
RECURSIVE generaterate_markdown_row(_, _, _)
generaterate_markdown_row(h, path, reports) ==
  IF reports = <<>> THEN [err |-> NoError, results |-> <<>>]
  ELSE LET sub_tree == get_subtree_by_path(h, reports[1], path)
           rest == generaterate_markdown_row(h, path, Tail(reports))
       IN IF sub_tree.err # NoError THEN [err |-> sub_tree.err, results |-> <<>>]
          ELSE IF rest.err # NoError THEN rest
          ELSE [err |-> NoError,
                results |-> <<section_result(h, sub_tree.node)>> \o rest.results]

\* ------------------------------------------------------------------ the README
\* "<!-- BEGIN CONFORMANCE TABLE -->" and "<!-- END CONFORMANCE TABLE -->"
START_MARKER ==
  <<"<", "!", "-", "-", " ", "B", "E", "G", "I", "N", " ", "C", "O", "N", "F", "O",
    "R", "M", "A", "N", "C", "E", " ", "T", "A", "B", "L", "E", " ", "-", "-", ">">>
END_MARKER ==
  <<"<", "!", "-", "-", " ", "E", "N", "D", " ", "C", "O", "N", "F", "O",
    "R", "M", "A", "N", "C", "E", " ", "T", "A", "B", "L", "E", " ", "-", "-", ">">>

\* readme_content[start_idx + len(START_MARKER):end_idx] for the 1-based indices
\* of the two markers: empty when the end marker starts before the slice does
between_markers(readme_content, start_idx, end_idx) ==
  SubSeq(readme_content, start_idx + Len(START_MARKER), end_idx - 1)

\* test_results_parser.extract_table_from_readme
extract_table_from_readme(readme_content) ==
  LET start_idx == find(readme_content, START_MARKER)
      end_idx == find(readme_content, END_MARKER)
  IN IF start_idx = 0 \/ end_idx = 0 THEN <<>>
     ELSE strip(between_markers(readme_content, start_idx, end_idx)) \o NewLine

\* check_readme_conformance.extract_table_from_readme
main_extract_table_from_readme(readme_content) ==
  LET start_idx == find(readme_content, START_MARKER)
      end_idx == find(readme_content, END_MARKER)
  IN IF start_idx = 0 \/ end_idx = 0 THEN <<>>
     ELSE strip(between_markers(readme_content, start_idx, end_idx))

\* before + "\n" + new_table + "\n" + after, both markers being there
splice(readme_content, new_table) ==
  LET start_idx == find(readme_content, START_MARKER)
      end_idx == find(readme_content, END_MARKER)
      before == SubSeq(readme_content, 1, start_idx + Len(START_MARKER) - 1)
      after == SubSeq(readme_content, end_idx, Len(readme_content))
  IN before \o NewLine \o new_table \o NewLine \o after

\* get_updated_readme_str(readme_content, new_table)
get_updated_readme_str(readme_content, new_table) ==
  IF find(readme_content, START_MARKER) = 0 \/ find(readme_content, END_MARKER) = 0
    THEN [err |-> "KeyError", text |-> <<>>]
  ELSE [err |-> NoError, text |-> splice(readme_content, new_table)]

\* is_readme_table_outdated(readme, new_table)
is_readme_table_outdated(readme_str, new_table) ==
  extract_table_from_readme(readme_str) # new_table

\* r'(.github/badges/(.*?).svg)' tried at index i: the index of the character
\* before "svg", 0 when there is no match
BadgesLit == <<"g", "i", "t", "h", "u", "b", "/", "b", "a", "d", "g", "e", "s", "/">>
SvgLit == <<"s", "v", "g">>
match_badge_at(s, i) ==
  LET g == i + 1 + Len(BadgesLit)
      ends == {e \in g..(Len(s) - Len(SvgLit)) :
                 /\ \A k \in g..e : s[k] # "\n"
                 /\ IsAt(s, SvgLit, e + 1)}
  IN IF i <= Len(s) /\ s[i] # "\n" /\ IsAt(s, BadgesLit, i + 1) /\ ends # {}
       THEN First(ends)
     ELSE 0

\* re.findall(r'(.github/badges/(.*?).svg)', s) from index i on: group 2 of each match
RECURSIVE findall_badges(_, _)
findall_badges(s, i) ==
  LET hits == {k \in i..Len(s) : match_badge_at(s, k) # 0}
      k == First(hits)
      e == match_badge_at(s, k)
  IN IF hits = {} THEN <<>>
     ELSE <<SubSeq(s, k + 1 + Len(BadgesLit), e - 1)>>
            \o findall_badges(s, e + Len(SvgLit) + 1)

RECURSIVE update_badges_loop(_, _)
\* after the svg of the first badge: the loop ends when it raised
update_badges_next(svg, badge_refs, written) ==
  IF svg.err # NoError THEN [err |-> svg.err, written |-> written]
  ELSE update_badges_loop(Tail(badge_refs), Append(written, Head(badge_refs)))

\* update_badges(workspace_dir, badge_refs): the badge files written and the
\* exception that ended the loop
update_badges_loop(badge_refs, written) ==
  IF badge_refs = <<>> THEN [err |-> NoError, written |-> written]
  ELSE update_badges_next(update_badges(Head(badge_refs)), badge_refs, written)

\* ------------------------------------------------------------------ state
VARIABLES
  variant,         \* which program runs
  phase,           \* "build", "diff", "table", "done", "aborted"
  heap,            \* the dicts allocated so far
  all_tests_json,  \* the canonical tree
  report,          \* implementation -> its tree (NoTree before the deepcopy)
  st,              \* implementation -> "idle", "applying", "done"
  listing,         \* lines of the all-tests listing inserted by the running loop
  fails,           \* implementation -> lines applied by its running loop
  err,             \* the exception that aborted the run
  row,             \* the last table row computed
  call,            \* the function called on its own, with its arguments
  ret,             \* what that call returned or raised
  readme,          \* the text of the README file
  runs             \* the update and check commands run so far, each with its outcome

vars == <<variant, phase, heap, all_tests_json, report, st, listing, fails, err, row,
          call, ret, readme, runs>>

\* no function has been called on its own
NoCall == [fn |-> "none"]

\* conformance/test_results_parser.py gen_table,
\* conformance/all_fail_testee/test_results_parser.py handle_input,
\* conformance/all_fail_testee/tests_parser.py
Variants == {"conformance", "all_fail_testee", "tests_parser"}
Impls == {"upb", "zig"}
NoTree == [isleaf |-> TRUE, val |-> FALSE, ref |-> 0 - 1]
NoRow == [index |-> 0, path |-> <<>>, err |-> "none", results |-> <<>>]

\* the identifiers fed to the programs: the empty line and
\* "a", "b", "a.a", "a.b", "b.a", "a.a.a"
IdPaths == {<<A>>, <<B>>, <<A, A>>, <<A, B>>, <<B, A>>, <<A, A, A>>}
Ids == {<<>>} \cup {join(p, Dot) : p \in IdPaths}

Editions_Proto2 ==
  <<"E", "d", "i", "t", "i", "o", "n", "s", "_", "P", "r", "o", "t", "o", "2">>
Editions_Proto3 ==
  <<"E", "d", "i", "t", "i", "o", "n", "s", "_", "P", "r", "o", "t", "o", "3">>

\* gen_table, handle_input: rows, the category paths of the table in the order
\* of its rows
rows ==
  << <<>>,
     <<Required>>,
     <<Required, Proto2>>,
     <<Required, Proto3>>,
     <<Required, Editions_Proto2>>,
     <<Required, Editions_Proto3>>,
     <<Recommended>>,
     <<Recommended, Proto2>>,
     <<Recommended, Proto3>>,
     <<Recommended, Editions_Proto2>>,
     <<Recommended, Editions_Proto3>> >>

\* a listing with one test "<level>.<version>.a" in each category of the table
CategoryListing ==
  LET two == {k \in DOMAIN rows : Len(rows[k]) = 2}
      nth(i) == CHOOSE k \in two : Cardinality({j \in two : j <= k}) = i
  IN [i \in 1..Cardinality(two) |-> join(rows[nth(i)] \o <<A>>, Dot)]
CategoryIds == {CategoryListing[i] : i \in DOMAIN CategoryListing}

\* the all-tests listings fed to the programs: up to MaxListing lines over Ids,
\* and the beginnings of CategoryListing
ListingAllowed(lines) ==
  \/ Len(lines) <= MaxListing /\ \A i \in DOMAIN lines : lines[i] \in Ids
  \/ Len(lines) <= Len(CategoryListing) /\ lines = SubSeq(CategoryListing, 1, Len(lines))

\* the lines of the failure files fed with a canonical tree: identifiers of the
\* kind its listing holds, for the categories of the table the test of the
\* first and of the seventh category
FailIds(h, tree) ==
  IF DOMAIN h[tree.ref] \cap {Required, Recommended} # {}
    THEN {CategoryListing[1], CategoryListing[7]}
  ELSE Ids

\* the lines are what a payload of the runner output parses to
ParsedLines(lines) == payload_lines(strip(join(lines, NewLine))) = lines

\* the lines are what pull_out_failing_tests reads from the runner output listing them
ReadFrom(lines) == pull_out_failing_tests(ListingText(lines)).lines = lines

Init ==
  /\ variant \in Variants
  /\ phase = "build"
  /\ heap = <<EmptyDict>>
  /\ all_tests_json = Ref(1)
  /\ report = [i \in Impls |-> NoTree]
  /\ st = [i \in Impls |-> "idle"]
  /\ listing = <<>>
  /\ fails = [i \in Impls |-> <<>>]
  /\ err = NoError
  /\ row = NoRow
  /\ call = NoCall
  /\ ret = NoCall
  /\ readme = <<>>
  /\ runs = <<>>

\* the files without the "--add /failing_tests.txt" line
BadTexts == {<<>>, FailedToOpenMarker}

\* the all-tests file lacks the "--add /failing_tests.txt" line: split(...)[1] raises
BadListing ==
  /\ phase = "build"
  /\ listing = <<>>
  /\ \E text \in BadTexts :
       /\ pull_out_failing_tests(text).err # NoError
       /\ err' = pull_out_failing_tests(text).err
  /\ phase' = "aborted"
  /\ UNCHANGED <<call, ret, readme, runs, variant, heap, all_tests_json, report, st, listing, fails, row>>

\* an implementation's failure file lacks the line: apply_fails_to_perfect_report
\* raises in pull_out_failing_tests, the deepcopy made and unchanged
BadFails(impl) ==
  /\ phase = "diff"
  /\ st[impl] = "applying"
  /\ fails[impl] = <<>>
  /\ \E text \in BadTexts :
       /\ pull_out_failing_tests(text).err # NoError
       /\ err' = pull_out_failing_tests(text).err
  /\ phase' = "aborted"
  /\ UNCHANGED <<call, ret, readme, runs, variant, heap, all_tests_json, report, st, listing, fails, row>>

\* the insert of the running program
insert(h, tree, test) ==
  IF variant = "tests_parser" THEN add_path(h, tree, split(test, Dot))
  ELSE set_test_result(h, tree, test, TRUE)

\* one iteration of `for test in failing_tests: set_test_result(all_tests, test, True)`
BuildStep(test) ==
  /\ phase = "build"
  /\ ListingAllowed(Append(listing, test))
  /\ ParsedLines(Append(listing, test))
  /\ LET r == insert(heap, all_tests_json, test)
     IN /\ heap' = r.heap
        /\ err' = r.err
        /\ phase' = IF r.err = NoError THEN "build" ELSE "aborted"
  /\ listing' = Append(listing, test)
  /\ UNCHANGED <<call, ret, readme, runs, variant, all_tests_json, report, st, fails, row>>

\* node[key] for each key of keys in turn, from keys[i] on
RECURSIVE subscript_from(_, _, _, _)
subscript_from(h, node, keys, i) ==
  IF i > Len(keys) THEN [node |-> node, err |-> NoError]
  ELSE IF ~isinstance_dict(h, node) THEN [node |-> node, err |-> "TypeError"]
  ELSE IF keys[i] \notin DOMAIN h[node.ref] THEN [node |-> node, err |-> "KeyError"]
  ELSE subscript_from(h, h[node.ref][keys[i]], keys, i + 1)

\* tests_parser.py, the statements after the loop: the counts printed for
\* all_pass_json['Recommended'], ['Required']['Proto2'], ['Required']['Proto3'],
\* up to the first subscript that raises
RECURSIVE tests_parser_prints(_, _, _)
tests_parser_prints(h, tree, printed) ==
  IF printed = << <<Recommended>>, <<Required, Proto2>>, <<Required, Proto3>> >> THEN NoError
  ELSE LET keys == IF printed = <<>> THEN <<Recommended>>
                   ELSE IF Len(printed) = 1 THEN <<Required, Proto2>>
                   ELSE <<Required, Proto3>>
           r == subscript_from(h, tree, keys, 1)
       IN IF r.err # NoError THEN r.err
          ELSE tests_parser_prints(h, tree, Append(printed, keys))

\* all_tests_as_dict_from_all_fails returns; tests_parser.py prints its counts and ends
BuildDone ==
  /\ phase = "build"
  /\ listing # <<>>
  /\ ReadFrom(listing)
  /\ IF variant = "tests_parser"
       THEN /\ err' = tests_parser_prints(heap, all_tests_json, <<>>)
            /\ phase' = IF err' = NoError THEN "done" ELSE "aborted"
     ELSE /\ err' = err
          /\ phase' = "diff"
  /\ listing' = <<>>
  /\ UNCHANGED <<call, ret, readme, runs, variant, heap, all_tests_json, report, st, fails, row>>

\* <impl>_report = deepcopy(all_tests_json)
CopyFor(impl) ==
  /\ phase = "diff"
  /\ st[impl] = "idle"
  /\ LET c == deepcopy(heap, all_tests_json)
     IN /\ heap' = c.heap
        /\ report' = [report EXCEPT ![impl] = c.val]
  /\ st' = [st EXCEPT ![impl] = "applying"]
  /\ UNCHANGED <<call, ret, readme, runs, variant, phase, all_tests_json, listing, fails, err, row>>

\* gen_table, handle_input: upb-zig first, zig-protobuf once upb-zig is done
StartDiff(impl) ==
  /\ impl = "zig" => st["upb"] = "done"
  /\ CopyFor(impl)

\* the strict setter of the running program
set_existing(h, tree, test, result) ==
  IF variant = "conformance" THEN set_test_result_existing(h, tree, test, result)
  ELSE all_fail_set_test_result_existing(h, tree, test, result)

\* one iteration of `for test in failing_tests: set_test_result_existing(report, test, False)`
ApplyLimited(impl, test, limit) ==
  /\ phase = "diff"
  /\ st[impl] = "applying"
  /\ Len(fails[impl]) < limit
  /\ test \in FailIds(heap, all_tests_json)
  /\ ParsedLines(Append(fails[impl], test))
  /\ LET r == set_existing(heap, report[impl], test, FALSE)
     IN /\ heap' = r.heap
        /\ err' = r.err
        /\ phase' = IF r.err = NoError THEN "diff" ELSE "aborted"
  /\ fails' = [fails EXCEPT ![impl] = Append(@, test)]
  /\ UNCHANGED <<call, ret, readme, runs, variant, all_tests_json, report, st, listing, row>>

ApplyStep(impl, test) == ApplyLimited(impl, test, MaxFails)

\* apply_fails_to_perfect_report that stops after the first line
apply_fails_first(h, tree, tests) ==
  IF tests = <<>> THEN [heap |-> h, err |-> NoError]
  ELSE set_existing(h, tree, Head(tests), FALSE)

\* apply_fails_to_perfect_report, the loop over the parsed lines
RECURSIVE apply_fails(_, _, _)
apply_fails(h, tree, tests) ==
  IF tests = <<>> THEN [heap |-> h, err |-> NoError]
  ELSE LET r == set_existing(h, tree, Head(tests), FALSE)
       IN IF r.err # NoError THEN r ELSE apply_fails(r.heap, tree, Tail(tests))

\* apply_fails_to_perfect_report returns
EndDiff(impl) ==
  /\ phase = "diff"
  /\ st[impl] = "applying"
  /\ fails[impl] # <<>>
  /\ ReadFrom(fails[impl])
  /\ st' = [st EXCEPT ![impl] = "done"]
  /\ fails' = [fails EXCEPT ![impl] = <<>>]
  /\ phase' = IF \A i \in Impls : st'[i] = "done" THEN "table" ELSE "diff"
  /\ UNCHANGED <<call, ret, readme, runs, variant, heap, all_tests_json, report, listing, err, row>>

\* the reports of the table, in column order
Reports ==
  IF variant = "conformance" THEN <<report["upb"], report["zig"]>>
  ELSE <<report["upb"], report["zig"], all_tests_json>>

\* generate_markdown_table, one iteration of `for row in rows:
\* str_rows.append(generaterate_markdown_row(row, reports))`: the next row of rows
GenRow ==
  /\ phase = "table"
  /\ row.index < Len(rows)
  /\ LET path == rows[row.index + 1]
         r == generaterate_markdown_row(heap, path, Reports)
     IN /\ row' = [index |-> row.index + 1, path |-> path, err |-> r.err,
                   results |-> r.results]
        /\ err' = r.err
        /\ phase' = IF r.err = NoError THEN "table" ELSE "aborted"
  /\ UNCHANGED <<call, ret, readme, runs, variant, heap, all_tests_json, report, st, listing, fails>>

\* every row of rows is generated: the table is printed
Finish ==
  /\ phase = "table"
  /\ row.index = Len(rows)
  /\ phase' = "done"
  /\ UNCHANGED <<call, ret, readme, runs, variant, heap, all_tests_json, report, st, listing, fails, err, row>>

Next ==
  \/ BadListing
  \/ \E test \in Ids \cup CategoryIds : BuildStep(test)
  \/ BuildDone
  \/ \E impl \in Impls : StartDiff(impl)
  \/ \E impl \in Impls : BadFails(impl)
  \/ \E impl \in Impls, test \in Ids \cup CategoryIds : ApplyStep(impl, test)
  \/ \E impl \in Impls : EndDiff(impl)
  \/ GenRow
  \/ Finish

Spec == Init /\ [][Next]_vars

\* all_tests_as_dict_from_all_fails, the loop over the parsed lines
RECURSIVE all_tests_as_dict(_, _, _)
all_tests_as_dict(h, tree, lines) ==
  IF lines = <<>> THEN [heap |-> h, err |-> NoError]
  ELSE LET r == set_test_result(h, tree, Head(lines), TRUE)
       IN IF r.err # NoError THEN r ELSE all_tests_as_dict(r.heap, tree, Tail(lines))

\* the listings the interleaved diffs start from: one or two identifiers
ParListings == {ls \in SeqsUpTo(Ids \ {<<>>}, 2) : ls # <<>>}

\* the state after all_tests_as_dict_from_all_fails has returned the canonical tree
InitPar ==
  /\ variant \in {"conformance", "all_fail_testee"}
  /\ phase = "diff"
  /\ \E ls \in ParListings :
       LET r == all_tests_as_dict(<<EmptyDict>>, Ref(1), ls)
       IN /\ ReadFrom(ls)
          /\ r.err = NoError
          /\ heap = r.heap
  /\ all_tests_json = Ref(1)
  /\ report = [i \in Impls |-> NoTree]
  /\ st = [i \in Impls |-> "idle"]
  /\ listing = <<>>
  /\ fails = [i \in Impls |-> <<>>]
  /\ err = NoError
  /\ row = NoRow
  /\ call = NoCall
  /\ ret = NoCall
  /\ readme = <<>>
  /\ runs = <<>>

\* the two implementations' diffs run as two workers, each on its own deepcopy,
\* their set_test_result_existing calls interleaved in any order
NextPar ==
  \/ \E impl \in Impls : CopyFor(impl)
  \/ \E impl \in Impls : BadFails(impl)
  \/ \E impl \in Impls, test \in Ids : ApplyLimited(impl, test, MaxParFails)
  \/ \E impl \in Impls : EndDiff(impl)

SpecPar == InitPar /\ [][NextPar]_vars

\* ------------------------------------------------------------------ cells and badges on their own
\* the tree programs are not running
TreeIdle ==
  /\ variant = "conformance"
  /\ phase = "done"
  /\ heap = <<EmptyDict>>
  /\ all_tests_json = Ref(1)
  /\ report = [i \in Impls |-> NoTree]
  /\ st = [i \in Impls |-> "idle"]
  /\ listing = <<>>
  /\ fails = [i \in Impls |-> <<>>]
  /\ err = NoError
  /\ row = NoRow

treeVars == <<variant, phase, heap, all_tests_json, report, st, listing, fails, err, row>>

\* percentages in tenths of a percent, from below 0 to above 100
PctTenths == (0 - MaxOver)..(1000 + MaxOver)

\* badge names that are not the unique_str of two counts: "-1_2", "+1_2",
\* " 1_2", "1_2 ", the Arabic-Indic "3_4", "1_2_3", "a_1", "1"
OtherBadges ==
  {<<"-", "1", "_", "2">>, <<"+", "1", "_", "2">>, <<" ", "1", "_", "2">>,
   <<"1", "_", "2", " ">>, <<"U+0663", "_", "U+0664">>, <<"1", "_", "2", "_", "3">>,
   <<"a", "_", "1">>, <<"1">>}

BadgeCalls ==
  {[fn |-> "_bar_color", pct |-> k] : k \in PctTenths}
    \cup {[fn |-> "SectionResult.__repr__", total |-> t, passing |-> p] :
             t \in 0..MaxCount, p \in 0..MaxCount}
    \cup {[fn |-> "gen_percent_bar_svg", passing |-> p, total |-> t] :
             p \in 0..MaxCount, t \in 0..MaxCount}
    \cup {[fn |-> "update_badges", badge |-> unique_str(p, t)] :
             p \in 0..MaxCount, t \in 0..MaxCount}
    \cup {[fn |-> "update_badges", badge |-> b] : b \in OtherBadges}

InitBadge ==
  /\ TreeIdle
  /\ readme = <<>>
  /\ runs = <<>>
  /\ call \in BadgeCalls
  /\ ret = NoCall

CallBarColor ==
  /\ call.fn = "_bar_color"
  /\ ret = NoCall
  /\ ret' = [err |-> NoError, color |-> bar_color(float_truediv(float(call.pct), 10))]
  /\ UNCHANGED <<call, readme, runs, treeVars>>

CallRepr ==
  /\ call.fn = "SectionResult.__repr__"
  /\ ret = NoCall
  /\ ret' = SectionResult_repr(call.total, call.passing)
  /\ UNCHANGED <<call, readme, runs, treeVars>>

CallGenBadge ==
  /\ call.fn = "gen_percent_bar_svg"
  /\ ret = NoCall
  /\ ret' = gen_percent_bar_svg(call.passing, call.total)
  /\ UNCHANGED <<call, readme, runs, treeVars>>

CallUpdateBadges ==
  /\ call.fn = "update_badges"
  /\ ret = NoCall
  /\ ret' = update_badges(call.badge)
  /\ UNCHANGED <<call, readme, runs, treeVars>>

NextBadge ==
  \/ CallBarColor
  \/ CallRepr
  \/ CallGenBadge
  \/ CallUpdateBadges

SpecBadge == InitBadge /\ [][NextBadge]_vars

\* ------------------------------------------------------------------ log mode on its own
\* the test names of the logs: the six categories, a version and a type that
\* match two rules or none, a level that is not one, a name of two segments
LogIds ==
  {<<"R", "e", "q", "u", "i", "r", "e", "d", ".", "P", "r", "o", "t", "o", "2", ".", "P", "r", "o", "t", "o", "b", "u", "f", "I", "n", "p", "u", "t", ".", "a">>,
   <<"R", "e", "q", "u", "i", "r", "e", "d", ".", "P", "r", "o", "t", "o", "3", ".", "J", "s", "o", "n", "I", "n", "p", "u", "t", ".", "a">>,
   <<"R", "e", "c", "o", "m", "m", "e", "n", "d", "e", "d", ".", "P", "r", "o", "t", "o", "2", ".", "J", "s", "o", "n", "I", "n", "p", "u", "t", ".", "a">>,
   <<"R", "e", "c", "o", "m", "m", "e", "n", "d", "e", "d", ".", "P", "r", "o", "t", "o", "3", ".", "P", "r", "o", "t", "o", "b", "u", "f", "I", "n", "p", "u", "t", ".", "a">>,
   <<"R", "e", "c", "o", "m", "m", "e", "n", "d", "e", "d", ".", "E", "d", "i", "t", "i", "o", "n", "s", "_", "P", "r", "o", "t", "o", "3", ".", "T", "e", "x", "t", "F", "o", "r", "m", "a", "t", "I", "n", "p", "u", "t", ".", "a">>,
   <<"R", "e", "q", "u", "i", "r", "e", "d", ".", "E", "d", "i", "t", "i", "o", "n", "s", ".", "J", "s", "o", "n", "T", "e", "x", "t", "F", "o", "r", "m", "a", "t">>,
   <<"R", "e", "q", "u", "i", "r", "e", "d", ".", "P", "r", "o", "t", "o", "3", "_", "P", "r", "o", "t", "o", "2", ".", "P", "r", "o", "t", "o", "b", "u", "f", "I", "n", "p", "u", "t", ".", "a">>,
   <<"O", "p", "t", "i", "o", "n", "a", "l", ".", "P", "r", "o", "t", "o", "2", ".", "J", "s", "o", "n", "I", "n", "p", "u", "t", ".", "a">>,
   <<"R", "e", "q", "u", "i", "r", "e", "d", ".", "P", "r", "o", "t", "o", "2">>}

\* "ERROR, test=<name>: x"
ErrorLine(name) == ErrorPrefix \o name \o <<":", " ", "x">>

\* the lines of a log: a failure per name, a failure line without its colon, a
\* line that is no failure, the summary line
LogLineSet ==
  {ErrorLine(name) : name \in LogIds}
    \cup {ErrorPrefix \o <<"R", "e", "c", "o", "m", "m", "e", "n", "d", "e", "d", ".", "P", "r", "o", "t", "o", "2", ".", "J", "s", "o", "n", "I", "n", "p", "u", "t", ".", "b">>,
          <<"o", "k">>,
          <<"1", "2", " ", "s", "u", "c", "c", "e", "s", "s", "e", "s", ",", " ", "3", " ", "s", "k", "i", "p", "p", "e", "d", ",", " ", "0", " ", "e", "x", "p", "e", "c", "t", "e", "d", " ", "f", "a", "i", "l", "u", "r", "e", "s", ",", " ", "1", " ", "u", "n", "e", "x", "p", "e", "c", "t", "e", "d", " ", "f", "a", "i", "l", "u", "r", "e", "s">>}

Logs == {join(ls, NewLine) : ls \in SeqsUpTo(LogLineSet, MaxLog)}
ZpLogs ==
  {None, <<>>} \cup {ErrorLine(name) : name \in {n \in LogIds : split(n, Dot)[2] = Proto2}}

LogCalls ==
  {[fn |-> "from_str", as_str |-> name] : name \in LogIds}
    \cup {[fn |-> "parse_conformance_log", log |-> log] : log \in Logs}
    \cup {[fn |-> "generate_report", log |-> log, zp_log |-> zp] :
             log \in Logs, zp \in ZpLogs}

InitLog ==
  /\ TreeIdle
  /\ readme = <<>>
  /\ runs = <<>>
  /\ call \in LogCalls
  /\ ret = NoCall

CallFromStr ==
  /\ call.fn = "from_str"
  /\ ret = NoCall
  /\ ret' = from_str(call.as_str)
  /\ UNCHANGED <<call, readme, runs, treeVars>>

CallParseLog ==
  /\ call.fn = "parse_conformance_log"
  /\ ret = NoCall
  /\ ret' = parse_conformance_log(call.log)
  /\ UNCHANGED <<call, readme, runs, treeVars>>

\* the report of the two parsed logs and its table
main_report(r, zp) ==
  IF r.err # NoError THEN [err |-> r.err]
  ELSE IF zp.err # NoError THEN [err |-> zp.err]
  ELSE [err |-> NoError,
        result |-> r.result,
        zig_protobuf_result |-> zp.result,
        by_category |-> count_failures(r.result).by_category,
        by_req |-> count_failures(r.result).by_req,
        lines |-> report_lines(r.result, zp.result),
        table |-> extract_table_from_report(generate_report(r.result, zp.result))]

\* main: both logs parsed, the report generated, its table extracted
CallGenerateReport ==
  /\ call.fn = "generate_report"
  /\ ret = NoCall
  /\ ret' = main_report(parse_conformance_log(call.log),
                        IF call.zp_log = None THEN [err |-> NoError, result |-> NoResult]
                        ELSE parse_conformance_log(call.zp_log))
  /\ UNCHANGED <<call, readme, runs, treeVars>>

NextLog ==
  \/ CallFromStr
  \/ CallParseLog
  \/ CallGenerateReport

SpecLog == InitLog /\ [][NextLog]_vars

\* ------------------------------------------------------------------ reading trees
\* the paths of the bools of a tree
RECURSIVE Leaves(_, _)
Leaves(h, v) ==
  IF v.isleaf THEN {<<>>}
  ELSE UNION {{<<k>> \o p : p \in Leaves(h, h[v.ref][k])} : k \in DOMAIN h[v.ref]}

\* the entry at a path of a tree, NoTree when the path leaves the tree
RECURSIVE At(_, _, _)
At(h, v, path) ==
  IF path = <<>> THEN v
  ELSE IF v.isleaf \/ Head(path) \notin DOMAIN h[v.ref] THEN NoTree
  ELSE At(h, h[v.ref][Head(path)], Tail(path))

IsPrefix(p, q) == Len(p) <= Len(q) /\ SubSeq(q, 1, Len(p)) = p
Lines(ls) == {ls[i] : i \in DOMAIN ls}
IsDictAt(h, v, path) == At(h, v, path) # NoTree /\ ~At(h, v, path).isleaf
IsBoolAt(h, v, path) == At(h, v, path) # NoTree /\ At(h, v, path).isleaf

\* how a path misses a tree: "category" when an intermediate segment is absent,
\* "type" when an intermediate segment is a bool, "test" when only the last
\* segment is absent, "present" when the path resolves
Misses(h, v, parts) ==
  LET n == Len(parts)
      bad == {i \in 1..(n - 1) : ~IsDictAt(h, v, SubSeq(parts, 1, i))}
      first == CHOOSE i \in bad : \A j \in bad : i <= j
  IN IF bad # {}
       THEN IF IsBoolAt(h, v, SubSeq(parts, 1, first)) THEN "type" ELSE "category"
     ELSE IF At(h, v, parts) = NoTree THEN "test"
     ELSE "present"

\* ------------------------------------------------------------------ README update and check
\* most pieces of a README, most commands run on it
MaxDoc == 3
MaxRuns == 3

\* a README is made of markers and lines of text, in any order
DocPieces == {START_MARKER, END_MARKER, <<"a", "\n">>}
Docs == {join(ps, <<>>) : ps \in SeqsUpTo(DocPieces, MaxDoc)}

\* the table file of the update and up-to-date commands: empty, one row without
\* a badge, one row as generaterate_markdown_row prints it, one row whose
\* category is empty
CliTables ==
  {<<>>,
   <<"a", " ", "|", " ", "t", "\n">>,
   <<"a", " ", "|", " ", "!", "[", "1", "_", "2", "]", "(", ".", "g", "i", "t", "h", "u", "b", "/", "b", "a", "d", "g", "e", "s", "/", "1", "_", "2", ".", "s", "v", "g", ")", "\n">>,
   <<"a", " ", "|", " ", "!", "[", "0", "_", "0", "]", "(", ".", "g", "i", "t", "h", "u", "b", "/", "b", "a", "d", "g", "e", "s", "/", "0", "_", "0", ".", "s", "v", "g", ")", "\n">>}

\* the conformance log on the standard input of the two scripts
MainLogs ==
  {<<>>,
   ErrorLine(<<"R", "e", "q", "u", "i", "r", "e", "d", ".", "P", "r", "o", "t", "o", "2", ".", "P", "r", "o", "t", "o", "b", "u", "f", "I", "n", "p", "u", "t", ".", "a">>),
   ErrorLine(<<"O", "p", "t", "i", "o", "n", "a", "l", ".", "P", "r", "o", "t", "o", "2", ".", "J", "s", "o", "n", "I", "n", "p", "u", "t", ".", "a">>)}

ReadmeCalls ==
  {[fn |-> "cli", table |-> t] : t \in CliTables}
    \cup {[fn |-> "main", log |-> log] : log \in MainLogs}

\* one command run: its exit status, the exception or exit that ended it, whether
\* it wrote the README, the badge files it wrote
Run(op, exit, e, wrote, badges) ==
  [op |-> op, exit |-> exit, err |-> e, wrote |-> wrote, badges |-> badges]

InitReadme ==
  /\ TreeIdle
  /\ call \in ReadmeCalls
  /\ ret = NoCall
  /\ readme \in Docs
  /\ runs = <<>>

\* update, from `if is_readme_table_outdated` on
UpdateReadme(readme_str, table_str, new_readme, badges) ==
  IF ~is_readme_table_outdated(readme_str, table_str)
    THEN /\ readme' = readme
         /\ runs' = Append(runs, Run("update", 0, NoError, FALSE, <<>>))
  ELSE IF new_readme.err # NoError
    THEN /\ readme' = readme
         /\ runs' = Append(runs, Run("update", 1, new_readme.err, FALSE, <<>>))
  ELSE IF badges.err # NoError
    THEN /\ readme' = readme
         /\ runs' = Append(runs, Run("update", 1, badges.err, FALSE, badges.written))
  ELSE /\ readme' = new_readme.text
       /\ runs' = Append(runs, Run("update", 0, NoError, TRUE, badges.written))

\* update, from update_badges on
UpdateBadges(readme_str, table_str, new_readme) ==
  UpdateReadme(readme_str, table_str, new_readme,
               update_badges_loop(findall_badges(new_readme.text, 1), <<>>))

\* test_results_parser.py update
Update ==
  /\ call.fn = "cli"
  /\ Len(runs) < MaxRuns
  /\ UpdateBadges(readme, call.table, get_updated_readme_str(readme, call.table))
  /\ UNCHANGED <<call, ret, treeVars>>

\* test_results_parser.py up_to_date
UpToDate ==
  /\ call.fn = "cli"
  /\ Len(runs) < MaxRuns
  /\ runs' = Append(runs,
       IF is_readme_table_outdated(readme, call.table)
         THEN Run("check", 1, "SystemExit", FALSE, <<>>)
       ELSE Run("check", 0, NoError, FALSE, <<>>))
  /\ UNCHANGED <<call, ret, readme, treeVars>>

\* the names of the badge files generate_badges writes for the upb-zig result
MainBadges ==
  << <<"r", "e", "q", "u", "i", "r", "e", "d">>,
     <<"r", "e", "c", "o", "m", "m", "e", "n", "d", "e", "d">>,
     <<"o", "v", "e", "r", "a", "l", "l">> >>

\* main, from the parsed log, the new table and the two markers on: what
\* parse_conformance_log raised, the exit when a marker is missing, the write
MainUpdateReadme(result, new_table, readme_content, start_idx, end_idx) ==
  IF result.err # NoError
    THEN /\ readme' = readme
         /\ runs' = Append(runs, Run("update", 1, result.err, FALSE, <<>>))
  ELSE IF start_idx = 0 \/ end_idx = 0
    THEN /\ readme' = readme
         /\ runs' = Append(runs, Run("update", 1, "SystemExit", FALSE, MainBadges))
  ELSE /\ readme' = splice(readme_content, new_table)
       /\ runs' = Append(runs, Run("update", 0, NoError, TRUE, MainBadges))

\* main, from the result of parse_conformance_log on
MainUpdateTable(result, readme_content) ==
  MainUpdateReadme(result,
                   extract_table_from_report(generate_report(result.result, NoResult)),
                   readme_content,
                   find(readme_content, START_MARKER),
                   find(readme_content, END_MARKER))

\* update_readme_conformance.py main, no --zig-protobuf-log given
MainUpdate ==
  /\ call.fn = "main"
  /\ Len(runs) < MaxRuns
  /\ MainUpdateTable(parse_conformance_log(call.log), readme)
  /\ UNCHANGED <<call, ret, treeVars>>

\* main, from the result of parse_conformance_log on: the outcome of the check
MainCheckRun(result, actual_table) ==
  IF result.err # NoError THEN Run("check", 1, result.err, FALSE, <<>>)
  ELSE IF extract_table_from_report(generate_report(result.result, NoResult)) = actual_table
    THEN Run("check", 0, NoError, FALSE, <<>>)
  ELSE Run("check", 1, "SystemExit", FALSE, <<>>)

\* check_readme_conformance.py main, no --zig-protobuf-log given
MainCheck ==
  /\ call.fn = "main"
  /\ Len(runs) < MaxRuns
  /\ runs' = Append(runs, MainCheckRun(parse_conformance_log(call.log),
                                       main_extract_table_from_readme(readme)))
  /\ UNCHANGED <<call, ret, readme, treeVars>>

NextReadme ==
  \/ Update
  \/ UpToDate
  \/ MainUpdate
  \/ MainCheck

SpecReadme == InitReadme /\ [][NextReadme]_vars

\* ------------------------------------------------------------------ two failure lists, one canonical tree
\* generate_markdown_table, `for row in rows`: the rows generated from rows[i]
\* on, the last one the first that raises
RECURSIVE markdown_rows_from(_, _, _)
markdown_rows_from(h, reports, i) ==
  IF i > Len(rows) THEN <<>>
  ELSE LET r == generaterate_markdown_row(h, rows[i], reports)
       IN IF r.err # NoError THEN <<r>>
          ELSE <<r>> \o markdown_rows_from(h, reports, i + 1)

\* apply_fails_to_perfect_report(fails, deepcopy(all_tests_json)) and the rows
\* of the table for the tree it leaves: the exception, the tree, the rows
diff_outcome(h, tree, tests) ==
  LET c == deepcopy(h, tree)
      r == apply_fails(c.heap, c.val, tests)
  IN [err |-> r.err,
      tree |-> TreeOf(r.heap, c.val),
      rows |-> markdown_rows_from(r.heap, <<c.val>>, 1)]

\* the canonical tree is built; two failure lists over its listing are to be applied
InitOrder ==
  /\ variant \in {"conformance", "all_fail_testee"}
  /\ phase = "diff"
  /\ \E ls \in ParListings \cup {CategoryListing} :
       LET r == all_tests_as_dict(<<EmptyDict>>, Ref(1), ls)
           lists == {l \in SeqsUpTo(Lines(ls) \cap FailIds(r.heap, Ref(1)), MaxFails) :
                       l # <<>> /\ ReadFrom(l)}
       IN /\ ReadFrom(ls)
          /\ r.err = NoError
          /\ heap = r.heap
          /\ call \in {[fn |-> "apply_fails_to_perfect_report", first |-> l1, second |-> l2] :
                         l1 \in lists, l2 \in lists}
  /\ all_tests_json = Ref(1)
  /\ report = [i \in Impls |-> NoTree]
  /\ st = [i \in Impls |-> "idle"]
  /\ listing = <<>>
  /\ fails = [i \in Impls |-> <<>>]
  /\ err = NoError
  /\ row = NoRow
  /\ ret = NoCall
  /\ readme = <<>>
  /\ runs = <<>>

\* each list is applied to its own deepcopy of the canonical tree
CallApplyFails ==
  /\ call.fn = "apply_fails_to_perfect_report"
  /\ ret = NoCall
  /\ ret' = [first |-> diff_outcome(heap, all_tests_json, call.first),
             second |-> diff_outcome(heap, all_tests_json, call.second)]
  /\ UNCHANGED <<call, readme, runs, treeVars>>

NextOrder ==
  \/ CallApplyFails

SpecOrder == InitOrder /\ [][NextOrder]_vars

\* ------------------------------------------------------------------ log mode: the badge percentages
TOTAL_REQUIRED == 4267
TOTAL_RECOMMENDED == 1300

\* the summary counters of the logs go up to MaxBadgeCount
MaxBadgeCount == 1

\* failed_by_req.get(level, 0) after the loop over result.failed
failed_by_req(result, level) ==
  Cardinality({i \in DOMAIN result.failed : result.failed[i].requirement_level = level})

\* max(0.0, x)
max_zero(x) == IF float_cmp(x, float_zero(FALSE)) > 0 THEN x ELSE float_zero(FALSE)

\* the three percentages of a result computed from the fixed totals:
\* update_readme_conformance.py _badges_for_result, and the upb-zig entries
\* of conformance_report.py generate_badges
badges_for_result(result, prefix) ==
  LET req_failures == failed_by_req(result, Required)
      rec_failures == failed_by_req(result, Recommended)
      total_run == result.num_passed + num_failed(result)
  IN [n \in {prefix \o "required", prefix \o "recommended", prefix \o "overall"} |->
        IF n = prefix \o "required"
          THEN float_truediv(float(100 * (TOTAL_REQUIRED - req_failures)), TOTAL_REQUIRED)
        ELSE IF n = prefix \o "recommended"
          THEN float_truediv(float(100 * (TOTAL_RECOMMENDED - rec_failures)), TOTAL_RECOMMENDED)
        ELSE IF total_run > 0 THEN float_truediv(float(100 * result.num_passed), total_run)
        ELSE float_zero(FALSE)]

\* 100 * (total - failures - skipped * total / zp_total_tests) / total
skipped_share_percent(total, failures, skipped, zp_total_tests) ==
  float_truediv(
    float_mul(float(100),
              float_sub(float(total - failures),
                        float_truediv(float(skipped * total), zp_total_tests))),
    total)

\* conformance_report.py generate_badges, the zig_protobuf_ entries: the
\* skipped tests spread over the two levels, the result not below 0
zig_protobuf_badges(zig_protobuf_result) ==
  LET zp_req_failures == failed_by_req(zig_protobuf_result, Required)
      zp_rec_failures == failed_by_req(zig_protobuf_result, Recommended)
      skipped == zig_protobuf_result.skipped
      zp_total_run == zig_protobuf_result.num_passed + num_failed(zig_protobuf_result) + skipped
      zp_total_tests == TOTAL_REQUIRED + TOTAL_RECOMMENDED
  IN [n \in {"zig_protobuf_required", "zig_protobuf_recommended", "zig_protobuf_overall"} |->
        IF n = "zig_protobuf_required"
          THEN max_zero(skipped_share_percent(TOTAL_REQUIRED, zp_req_failures, skipped,
                                              zp_total_tests))
        ELSE IF n = "zig_protobuf_recommended"
          THEN max_zero(skipped_share_percent(TOTAL_RECOMMENDED, zp_rec_failures, skipped,
                                              zp_total_tests))
        ELSE IF zp_total_run > 0
          THEN float_truediv(float(100 * zig_protobuf_result.num_passed), zp_total_run)
        ELSE float_zero(FALSE)]

\* the badges dict of generate_badges, of conformance_report.py or of
\* update_readme_conformance.py
badges_dict(module, result, zig_protobuf_result) ==
  LET badges == badges_for_result(result, "")
  IN IF zig_protobuf_result = NoResult THEN badges
     ELSE IF module = "conformance_report" THEN badges @@ zig_protobuf_badges(zig_protobuf_result)
     ELSE badges @@ badges_for_result(zig_protobuf_result, "zig_protobuf_")

\* _generate_progress_bar_svg(percentage): the values put into the svg
generate_progress_bar_svg(percentage) ==
  [bar_width |-> float_truediv(float_mul(float(BADGE_WIDTH), percentage), 100),
   color |-> bar_color(percentage),
   text |-> format_1f(percentage) \o <<"%">>]

\* generate_badges: the percentages and the svg written for each name
generate_badges(module, result, zig_protobuf_result) ==
  LET badges == badges_dict(module, result, zig_protobuf_result)
  IN [badges |-> badges,
      files |-> [n \in DOMAIN badges |-> generate_progress_bar_svg(badges[n])]]

\* parse_conformance_log once the finditer loop went over the failure lines of
\* one block: what from_str raised, or the result with the block times times
\* over and the counters of the summary line
result_of_block(f, log) ==
  IF f.err # NoError THEN [err |-> f.err, result |-> ConformanceResult]
  ELSE [err |-> NoError,
        result |-> [ConformanceResult EXCEPT
                      !.failed = [i \in 1..(Len(f.failed) * log.times) |->
                                    f.failed[((i - 1) % Len(f.failed)) + 1]],
                      !.num_passed = log.num_passed,
                      !.skipped = log.skipped]]

\* parse_conformance_log(log) for a log that holds the failure lines of names,
\* in this order, times times over, and a summary line
result_of_log(log) == result_of_block(append_failed(<<>>, log.names), log)

RequiredName ==
  <<"R", "e", "q", "u", "i", "r", "e", "d", ".", "P", "r", "o", "t", "o", "2", ".", "P", "r", "o", "t", "o", "b", "u", "f", "I", "n", "p", "u", "t", ".", "a">>
RecommendedName ==
  <<"R", "e", "c", "o", "m", "m", "e", "n", "d", "e", "d", ".", "P", "r", "o", "t", "o", "2", ".", "J", "s", "o", "n", "I", "n", "p", "u", "t", ".", "a">>

\* names ConformanceTest.from_str rejects: a level that is none, two segments
OptionalName ==
  <<"O", "p", "t", "i", "o", "n", "a", "l", ".", "P", "r", "o", "t", "o", "2", ".", "J", "s", "o", "n", "I", "n", "p", "u", "t", ".", "a">>
ShortName ==
  <<"R", "e", "q", "u", "i", "r", "e", "d", ".", "P", "r", "o", "t", "o", "3">>

\* the logs: no failure line, one or two, one line more often than its level
\* has tests, and a line whose name from_str rejects, alone or after another
BadgeLogs ==
  {[names |-> sh[1], times |-> sh[2], num_passed |-> p, skipped |-> s] :
     sh \in {<< <<>>, 1 >>, << <<RequiredName>>, 1 >>, << <<RecommendedName>>, 1 >>,
             << <<RequiredName, RecommendedName>>, 1 >>,
             << <<RecommendedName>>, TOTAL_RECOMMENDED + 1 >>,
             << <<RequiredName>>, TOTAL_REQUIRED + 1 >>,
             << <<OptionalName>>, 1 >>,
             << <<RequiredName, ShortName>>, 1 >>},
     p \in 0..MaxBadgeCount, s \in 0..MaxBadgeCount}

\* the log that goes with the logs of the compared implementation: no failure
\* line, the counters 0
PassingLog == [names |-> <<>>, times |-> 1, num_passed |-> 0, skipped |-> 0]

\* --zig-protobuf-log not given
NoLog == [given |-> FALSE]

InitPct ==
  /\ TreeIdle
  /\ readme = <<>>
  /\ runs = <<>>
  /\ call \in {[fn |-> "generate_badges", module |-> m, log |-> l, zp_log |-> z] :
                 m \in {"conformance_report", "update_readme_conformance"},
                 l \in BadgeLogs, z \in BadgeLogs \cup {NoLog}}
  /\ call.zp_log = NoLog \/ call.log = PassingLog
  /\ ret = NoCall

\* generate_badges returned: nothing raised
badges_written(g) == [err |-> NoError, badges |-> g.badges, files |-> g.files]

\* main, from the two parsed logs on: parse_conformance_log of the first log
\* that raises ends the run with no badge written, otherwise generate_badges
main_generate_badges(module, r, zp) ==
  IF r.err # NoError THEN [err |-> r.err, badges |-> <<>>, files |-> <<>>]
  ELSE IF zp.err # NoError THEN [err |-> zp.err, badges |-> <<>>, files |-> <<>>]
  ELSE badges_written(generate_badges(module, r.result, zp.result))

\* main: the logs parsed, generate_badges called with the results
CallGenerateBadges ==
  /\ call.fn = "generate_badges"
  /\ ret = NoCall
  /\ ret' = main_generate_badges(call.module, result_of_log(call.log),
                                 IF call.zp_log = NoLog
                                   THEN [err |-> NoError, result |-> NoResult]
                                 ELSE result_of_log(call.zp_log))
  /\ UNCHANGED <<call, readme, runs, treeVars>>

NextPct ==
  \/ CallGenerateBadges

SpecPct == InitPct /\ [][NextPct]_vars

\* ------------------------------------------------------------------ C1
\* C1: applying a failure list whose identifiers all name tests (leaves) of the
\* canonical tree completes without error, keeps the leaf paths of the canonical
\* tree, and leaves a leaf false exactly when its identifier is in the list.
C1_NamesLeaves(impl) ==
  /\ st[impl] = "applying"
  /\ fails[impl] # <<>>
  /\ \A i \in DOMAIN fails[impl] :
       split(fails[impl][i], Dot) \in Leaves(heap, all_tests_json)

C1_FailingLeavesFlipped ==
  \A impl \in Impls :
    C1_NamesLeaves(impl) =>
      /\ phase # "aborted"
      /\ Leaves(heap, report[impl]) = Leaves(heap, all_tests_json)
      /\ \A p \in Leaves(heap, report[impl]) :
           At(heap, report[impl], p).val = (join(p, Dot) \notin Lines(fails[impl]))

\* ------------------------------------------------------------------ C2
\* C2: the first set_test_result_existing call on a copy of the freshly built
\* canonical tree, with a path that is not in the tree, raises -- unknown
\* category for an absent intermediate segment, type mismatch for an
\* intermediate bool, unknown test for an absent last segment -- and adds no key.
C2_ExpectedError(miss) ==
  IF miss = "category" THEN KeyErrorMissingComponent
  ELSE IF miss = "type" THEN TypeErrorExpectedDict
  ELSE KeyErrorMissingLeaf

C2_UnknownPathRaisesByKind ==
  \A impl \in Impls :
    LET miss == Misses(heap, all_tests_json, split(fails[impl][1], Dot))
    IN (st[impl] = "applying" /\ Len(fails[impl]) = 1 /\ miss # "present") =>
         /\ phase = "aborted"
         /\ err = C2_ExpectedError(miss)
         /\ TreeOf(heap, report[impl]) = TreeOf(heap, all_tests_json)

\* ------------------------------------------------------------------ C3
\* C3: a set_test_result_existing call that raises leaves every tree as it was
\* before the call: the leaves flipped earlier stay false, nothing else changes.
C3_FailedCallChangesNothing ==
  [][(phase = "diff" /\ phase' = "aborted") =>
       /\ TreeOf(heap', all_tests_json') = TreeOf(heap, all_tests_json)
       /\ \A impl \in Impls :
            report[impl] # NoTree =>
              /\ report'[impl] = report[impl]
              /\ TreeOf(heap', report'[impl]) = TreeOf(heap, report[impl])
              /\ \A p \in Leaves(heap, report[impl]) :
                   ~At(heap, report[impl], p).val => ~At(heap', report'[impl], p).val]_vars

\* a call raised after an earlier call of the same listing had flipped a leaf
C3_Witness ==
  /\ phase = "aborted"
  /\ \E impl \in Impls :
       /\ st[impl] = "applying"
       /\ Len(fails[impl]) >= 2
       /\ \E p \in Leaves(heap, report[impl]) : ~At(heap, report[impl], p).val

\* ------------------------------------------------------------------ C4
\* the tree an implementation's diff yields when it runs alone on its own
\* deepcopy of the canonical tree
C4_Alone(impl) ==
  LET c == deepcopy(heap, all_tests_json)
      r == apply_fails(c.heap, c.val, fails[impl])
  IN TreeOf(r.heap, c.val)

C4_StateOk ==
  /\ \A p \in Leaves(heap, all_tests_json) : At(heap, all_tests_json, p).val
  /\ \A impl \in Impls :
       st[impl] = "applying" => TreeOf(heap, report[impl]) = C4_Alone(impl)

\* C4: under any interleaving of the two implementations' diffs no call changes
\* the canonical tree or the other implementation's tree, each tree is the one
\* its diff yields alone, and the canonical tree keeps every leaf true.
C4_CopiesIndependent ==
  /\ []C4_StateOk
  /\ [][/\ TreeOf(heap', all_tests_json') = TreeOf(heap, all_tests_json)
        /\ \A impl \in Impls :
             (report[impl] # NoTree /\ fails'[impl] = fails[impl]) =>
               TreeOf(heap', report'[impl]) = TreeOf(heap, report[impl])]_vars

\* both diffs have flipped a leaf, each a leaf the other left true
C4_Witness ==
  /\ phase = "diff"
  /\ \A impl \in Impls : st[impl] = "applying" /\ fails[impl] # <<>>
  /\ \E p, q \in Leaves(heap, all_tests_json) :
       /\ ~At(heap, report["upb"], p).val /\ At(heap, report["zig"], p) = Leaf(TRUE)
       /\ ~At(heap, report["zig"], q).val /\ At(heap, report["upb"], q) = Leaf(TRUE)

\* ------------------------------------------------------------------ C5
\* C5: while the canonical tree is built and no insert has failed, its leaf paths
\* are exactly the distinct identifiers inserted, and count_tests of
\* get_subtree_by_path(tree, []) is their number.
C5_LeavesAreTheListing ==
  (phase = "build" /\ listing # <<>>) =>
    /\ Leaves(heap, all_tests_json) = {split(l, Dot) : l \in Lines(listing)}
    /\ LET t == get_subtree_by_path(heap, all_tests_json, <<>>)
       IN /\ t.err = NoError
          /\ count_tests(heap, t.node) = Cardinality(Lines(listing))

\* ------------------------------------------------------------------ C6
HasLeafPrefix(h, v, parts) ==
  \E i \in 1..(Len(parts) - 1) : IsBoolAt(h, v, SubSeq(parts, 1, i))

\* C6: an insert whose path runs through an existing bool raises and leaves the
\* tree as it was; the bool is never replaced by a mapping.
C6_InsertThroughLeafRaises ==
  /\ \A test \in Ids :
       HasLeafPrefix(heap, all_tests_json, split(test, Dot)) =>
         LET r == insert(heap, all_tests_json, test)
         IN /\ r.err # NoError
            /\ TreeOf(r.heap, all_tests_json) = TreeOf(heap, all_tests_json)
  /\ (listing # <<>> /\ phase = "build") =>
       ~HasLeafPrefix(heap, all_tests_json, split(Last(listing), Dot))

\* the build loop raised on an identifier that runs through an earlier test
C6_Witness ==
  /\ phase = "aborted"
  /\ err = "AssertionError"
  /\ Len(listing) = 2
  /\ HasLeafPrefix(heap, all_tests_json, split(listing[2], Dot))

\* ------------------------------------------------------------------ C7
\* C7: no tree holds an empty segment as a key, and a listing line that is the
\* empty identifier is rejected.
C7_EmptyIdentifierRejected ==
  /\ \A p \in Leaves(heap, all_tests_json) : \A i \in DOMAIN p : p[i] # <<>>
  /\ <<>> \in Lines(listing) => phase = "aborted"

\* ------------------------------------------------------------------ C8
\* C8: on every tree reached by inserts, inserting an identifier twice in a row
\* gives the tree, and the outcome, of inserting it once.
C8_InsertIdempotent ==
  phase = "build" =>
    /\ \A test \in Ids :
         LET r1 == insert(heap, all_tests_json, test)
             r2 == insert(r1.heap, all_tests_json, test)
         IN /\ r2.err = r1.err
            /\ TreeOf(r2.heap, all_tests_json) = TreeOf(r1.heap, all_tests_json)
    /\ (Len(listing) = 2 /\ listing[1] = listing[2]) =>
         TreeOf(heap, all_tests_json)
           = TreeOf(insert(<<EmptyDict>>, Ref(1), listing[1]).heap, Ref(1))

\* the build loop has inserted the same identifier twice
C8_Witness ==
  /\ phase = "build"
  /\ Len(listing) = 2
  /\ listing[1] = listing[2]

\* ------------------------------------------------------------------ C9
\* C9: count_tests of a dict is the sum over its values and the number of bools
\* below it, count_passing_tests the number of true bools below it; a bool
\* counts 1, and 1 as passing only when true.
C9_CountsAdditive ==
  /\ \A b \in BOOLEAN :
       /\ count_tests(heap, Leaf(b)) = 1
       /\ count_passing_tests(heap, Leaf(b)) = IF b THEN 1 ELSE 0
  /\ \A n \in DOMAIN heap :
       /\ count_tests(heap, Ref(n)) = Cardinality(Leaves(heap, Ref(n)))
       /\ count_passing_tests(heap, Ref(n))
            = Cardinality({p \in Leaves(heap, Ref(n)) : At(heap, Ref(n), p).val})
       /\ count_tests(heap, Ref(n))
            = SumOver([k \in DOMAIN heap[n] |-> count_tests(heap, heap[n][k])],
                      DOMAIN heap[n])
       /\ count_passing_tests(heap, Ref(n))
            = SumOver([k \in DOMAIN heap[n] |-> count_passing_tests(heap, heap[n][k])],
                      DOMAIN heap[n])

\* a tree with a category beside a test, holding a failing and a passing test
C9_Witness ==
  \E impl \in Impls :
    /\ report[impl] # NoTree
    /\ Cardinality(DOMAIN heap[report[impl].ref]) >= 2
    /\ \E k \in DOMAIN heap[report[impl].ref] : ~heap[report[impl].ref][k].isleaf
    /\ count_tests(heap, report[impl]) >= 2
    /\ count_passing_tests(heap, report[impl]) \in 1..(count_tests(heap, report[impl]) - 1)

\* ------------------------------------------------------------------ C10
\* C10: at every category path of the canonical tree, an implementation's row
\* has total = the canonical identifiers below the path and passing = total
\* minus the distinct failing identifiers below it; the all-pass column has
\* passing = total.
C10_CategoryPaths ==
  {p \in UNION {{SubSeq(q, 1, i) : i \in 0..(Len(q) - 1)} :
                  q \in Leaves(heap, all_tests_json)} :
     IsDictAt(heap, all_tests_json, p)}

C10_SectionCounts ==
  \A impl \in Impls :
    (st[impl] = "applying" /\ phase = "diff") =>
      \A p \in C10_CategoryPaths :
        LET r == generaterate_markdown_row(heap, p, <<report[impl], all_tests_json>>)
            total == Cardinality({q \in Leaves(heap, all_tests_json) : IsPrefix(p, q)})
            failing == Cardinality({t \in Lines(fails[impl]) : IsPrefix(p, split(t, Dot))})
        IN /\ r.err = NoError
           /\ r.results[1] = [total |-> total, passing |-> total - failing]
           /\ r.results[2] = [total |-> total, passing |-> total]

\* ------------------------------------------------------------------ C11
\* percent_passing of every section result of a listing: total tests of which
\* passing pass
C11_MostTests == IF MaxListing > Len(CategoryListing) THEN MaxListing ELSE Len(CategoryListing)
C11_Percent ==
  [total \in 1..C11_MostTests |-> [passing \in 0..total |-> percent_passing(total, passing)]]

\* C11: in every subtree of every tree built or diffed, 0 <= passing <= total,
\* and with total > 0 percent_passing is a number from 0 to 100.
C11_PercentInRange ==
  \A s \in {section_result(heap, Ref(n)) : n \in DOMAIN heap} :
    /\ 0 <= s.passing
    /\ s.passing <= s.total
    /\ s.total > 0 =>
         /\ C11_Percent[s.total][s.passing].err = NoError
         /\ float_cmp(float(0), C11_Percent[s.total][s.passing].val) <= 0
         /\ float_cmp(C11_Percent[s.total][s.passing].val, float(100)) <= 0

\* an implementation's tree holds a category with a passing and a failing test
C11_Witness ==
  \E impl \in Impls :
    /\ report[impl] # NoTree
    /\ \E k \in DOMAIN heap[report[impl].ref] :
         LET s == section_result(heap, heap[report[impl].ref][k])
         IN /\ ~heap[report[impl].ref][k].isleaf
            /\ s.total = 2
            /\ s.passing = 1

\* ------------------------------------------------------------------ C12
\* s holds sub as a contiguous part
Contains(s, sub) == \E j \in 1..(Len(s) - Len(sub) + 1) : IsAt(s, sub, j)

C12_ZeroOfZero ==
  \/ call.fn \in {"SectionResult.__repr__", "gen_percent_bar_svg"}
       /\ call.passing = 0 /\ call.total = 0
  \/ call.fn = "update_badges" /\ call.badge = unique_str(0, 0)

\* C12: a cell or a badge rendered for passing = 0, total = 0 is an N/A result:
\* the call returns, without a division-by-zero error, a text that says N/A.
C12_ZeroTotalIsNA ==
  (C12_ZeroOfZero /\ ret # NoCall) =>
    /\ ret.err = NoError
    /\ Contains(ret.text, <<"N", "A">>) \/ Contains(ret.text, <<"N", "/", "A">>)

\* ------------------------------------------------------------------ C13
\* C13: get_subtree_by_path returns the node the path leads to (the tree itself
\* for the empty path) and raises exactly when a segment is absent or a bool is
\* reached before the path is exhausted.
C13_GetSubtreeDescends ==
  \A path \in IdPaths \cup {<<>>} :
    LET r == get_subtree_by_path(heap, all_tests_json, path)
        node == At(heap, all_tests_json, path)
    IN /\ r.err = NoError <=> node # NoTree
       /\ r.err = NoError => r.node = node

\* ------------------------------------------------------------------ C14
\* C14: from_str raises for an identifier of fewer than three segments and for
\* one whose segment 0 is no requirement level; every other identifier gives a
\* test whose requirement_level is segment 0.  A log with an identifier that
\* from_str rejects makes parse_conformance_log raise: the line is not skipped.
C14_ClassifyRejects ==
  /\ (call.fn = "from_str" /\ ret # NoCall) =>
       LET parts == split(call.as_str, Dot)
       IN IF Len(parts) < 3 \/ parts[1] \notin {Required, Recommended}
            THEN ret.err # NoError
          ELSE ret.err = NoError /\ ret.test.requirement_level = parts[1]
  /\ (call.fn = "parse_conformance_log" /\ ret # NoCall) =>
       LET names == finditer_error(call.log, 1)
       IN (\E i \in DOMAIN names :
             LET parts == split(names[i], Dot)
             IN Len(parts) < 3 \/ parts[1] \notin {Required, Recommended})
            => ret.err # NoError

\* a log whose first failure line classifies and whose second is rejected has
\* been parsed
C14_Witness ==
  /\ call.fn = "parse_conformance_log"
  /\ ret # NoCall
  /\ LET names == finditer_error(call.log, 1)
     IN /\ Len(names) = 2
        /\ Len(split(names[1], Dot)) >= 3
        /\ split(names[1], Dot)[1] = Required
        /\ Len(split(names[2], Dot)) < 3
        /\ ret.err # NoError

\* ------------------------------------------------------------------ C15
\* C15: for an identifier from_str accepts, normalization raises nothing and
\* follows its rules in order: proto_version is Proto2 when segment 1 contains
\* "Proto2", else Proto3 when it contains "Proto3", else segment 1 itself;
\* test_format is JSON when segment 2 contains "Json", else Text format when it
\* contains "TextFormat", else Wire format.
C15_NormalizationOrdered ==
  (call.fn = "from_str" /\ ret # NoCall) =>
    LET parts == split(call.as_str, Dot)
    IN (Len(parts) >= 3 /\ parts[1] \in {Required, Recommended}) =>
         /\ ret.err = NoError
         /\ ret.test.proto_version =
              IF Contains(parts[2], Proto2) THEN Proto2
              ELSE IF Contains(parts[2], Proto3) THEN Proto3
              ELSE parts[2]
         /\ ret.test.test_format =
              IF Contains(parts[3], Json) THEN JSON
              ELSE IF Contains(parts[3], TextFormat) THEN TextFormatName
              ELSE WireFormatName

\* an identifier whose segment 1 holds both "Proto3" and "Proto2" and whose
\* segment 2 holds neither "Json" nor "TextFormat" has been classified
C15_Witness ==
  /\ call.fn = "from_str"
  /\ ret # NoCall
  /\ ret.err = NoError
  /\ LET parts == split(call.as_str, Dot)
     IN /\ Contains(parts[2], Proto2)
        /\ Contains(parts[2], Proto3)
        /\ ~Contains(parts[3], Json)
        /\ ~Contains(parts[3], TextFormat)

\* ------------------------------------------------------------------ C16
\* the entries of failed that fall in a category
Matching(failed, key) ==
  {i \in DOMAIN failed :
     <<failed[i].requirement_level, failed[i].proto_version, failed[i].test_format>> = key}

\* the Recommended row of a format begins with the label and the cell for n
RecommendedCell(line, fmt, n) ==
  IsAt(line, <<"|", " ">> \o fmt \o <<" ", "|", " ">> \o str_int(n) \o FailuresLit
               \o <<" ", "|", " ">>, 1)

\* C16: a parsed log keeps in failed one entry per match of the failure-line
\* pattern, in the order of the log and with duplicates; num_failed is the length
\* of failed; by_category counts for each (requirement_level, proto_version,
\* test_format) the entries of failed that match it; by_req of a level is the sum
\* of that level's category counts; a Recommended cell of the table is the sum
\* of the Proto2 and the Proto3 count of its format.
C16_GroupedWithoutLoss ==
  /\ (call.fn = "parse_conformance_log" /\ ret # NoCall /\ ret.err = NoError) =>
       LET names == finditer_error(call.log, 1)
           failed == ret.result.failed
       IN /\ Len(failed) = Len(names)
          /\ \A i \in DOMAIN names : failed[i] = from_str(names[i]).test
          /\ num_failed(ret.result) = Len(failed)
  /\ (call.fn = "generate_report" /\ ret # NoCall /\ ret.err = NoError) =>
       LET failed == ret.result.failed
           n(proto, fmt) == Cardinality(Matching(failed, <<Recommended, proto, fmt>>))
       IN /\ \A i \in DOMAIN failed :
               <<failed[i].requirement_level, failed[i].proto_version,
                 failed[i].test_format>> \in DOMAIN ret.by_category
          /\ \A key \in DOMAIN ret.by_category :
               ret.by_category[key] = Cardinality(Matching(failed, key))
          /\ \A i \in DOMAIN failed : failed[i].requirement_level \in DOMAIN ret.by_req
          /\ \A level \in DOMAIN ret.by_req :
               ret.by_req[level] =
                 SumOver(ret.by_category,
                         {key \in DOMAIN ret.by_category : key[1] = level})
          /\ RecommendedCell(ret.lines[9], WireFormatName,
                             n(Proto2, WireFormatName) + n(Proto3, WireFormatName))
          /\ RecommendedCell(ret.lines[10], JSON, n(Proto2, JSON) + n(Proto3, JSON))

\* a report has been generated from a log that names the same Recommended test
\* in two failure lines
C16_Witness ==
  /\ call.fn = "generate_report"
  /\ ret # NoCall
  /\ ret.err = NoError
  /\ Len(ret.result.failed) = 2
  /\ ret.result.failed[1] = ret.result.failed[2]
  /\ ret.result.failed[1].requirement_level = Recommended
  /\ ret.result.failed[1].test_format = JSON

\* ------------------------------------------------------------------ C17
\* the README lacks the start marker or the end marker
LacksMarker(doc) == ~Contains(doc, START_MARKER) \/ ~Contains(doc, END_MARKER)

\* C17: run on a README that lacks a marker, update ends with an error and
\* leaves the README unwritten, and check exits non-zero, whatever the table is.
C17_MissingMarkerRejected ==
  [][(LacksMarker(readme) /\ runs' # runs) =>
       /\ Last(runs').exit # 0
       /\ ~Last(runs').wrote
       /\ readme' = readme]_vars

\* ------------------------------------------------------------------ C18
\* the generated table a command is run with, <<>> when there is none: the
\* table file of update and up_to_date, the table the scripts make from the log
TableOf(c) ==
  IF c.fn = "cli" THEN c.table
  ELSE IF parse_conformance_log(c.log).err # NoError THEN <<>>
  ELSE extract_table_from_report(
         generate_report(parse_conformance_log(c.log).result, NoResult))

\* an update run earlier has written the README
HasWritten(rs) == \E i \in DOMAIN rs : rs[i].op = "update" /\ rs[i].wrote

\* a start marker and an end marker after it hold the table between them, up to
\* the white space around it
RegionIs(doc, table) ==
  \E s \in 1..Len(doc), e \in 1..Len(doc) :
    /\ IsAt(doc, START_MARKER, s)
    /\ IsAt(doc, END_MARKER, e)
    /\ e >= s + Len(START_MARKER)
    /\ strip(SubSeq(doc, s + Len(START_MARKER), e - 1)) = strip(table)

\* C18: on a README with both markers and with a generated table T, once update
\* has written the README a check with T exits 0 and a further update with T
\* leaves the README as it is; and a check exits non-zero whenever the region
\* between the markers is not T.
C18_UpdateThenCheckAgrees ==
  [][(/\ runs' # runs
      /\ ~LacksMarker(readme)
      /\ TableOf(call) # <<>>) =>
       /\ (HasWritten(runs) /\ Last(runs').op = "check") => Last(runs').exit = 0
       /\ (HasWritten(runs) /\ Last(runs').op = "update") => readme' = readme
       /\ (Last(runs').op = "check" /\ ~RegionIs(readme, TableOf(call)))
            => Last(runs').exit # 0]_vars

\* ------------------------------------------------------------------ C19
\* how often a marker occurs in a document
CountOf(doc, marker) == Cardinality({i \in 1..Len(doc) : IsAt(doc, marker, i)})

\* the least index at which a marker occurs in a document that holds it
FirstAt(doc, marker) == First({i \in 1..Len(doc) : IsAt(doc, marker, i)})

\* C19: an update that writes the README with the table T keeps the text up to
\* and including the start marker and the text from the end marker on, puts
\* "\n" T "\n" between the two, and leaves the number of occurrences of each
\* marker as it was.
C19_OnlyRegionChanges ==
  [][(/\ runs' # runs
      /\ Last(runs').op = "update"
      /\ Last(runs').wrote) =>
       LET head == SubSeq(readme, 1, FirstAt(readme, START_MARKER) + Len(START_MARKER) - 1)
           tail == SubSeq(readme, FirstAt(readme, END_MARKER), Len(readme))
       IN /\ SubSeq(readme', 1, Len(head)) = head
          /\ SubSeq(readme', Len(readme') - Len(tail) + 1, Len(readme')) = tail
          /\ readme' = head \o NewLine \o TableOf(call) \o NewLine \o tail
          /\ CountOf(readme', START_MARKER) = CountOf(readme, START_MARKER)
          /\ CountOf(readme', END_MARKER) = CountOf(readme, END_MARKER)]_vars

\* ------------------------------------------------------------------ C20
\* the colour "#rrggbb" is well formed: seven characters, six of them hex digits
IsHexColor(color) ==
  /\ Len(color) = 7
  /\ color[1] = "#"
  /\ \A k \in 2..7 : \E d \in DOMAIN HexDigits : HexDigits[d] = color[k]

\* the value of a hex digit, and the three channels of a colour "#rrggbb"
HexValue(c) == (CHOOSE d \in DOMAIN HexDigits : HexDigits[d] = c) - 1
Channels(color) ==
  [k \in 1..3 |-> 16 * HexValue(color[2 * k]) + HexValue(color[2 * k + 1])]

\* two colours differ by at most 1 in each channel
Near(c, d) == \A k \in 1..3 : c[k] - d[k] \in {0 - 1, 0, 1}

\* C20: _bar_color does not jump at 60 %: the colour of 59.9 is within 1 per
\* channel of the colour of 60.0; every colour it returns has its three
\* channels in 0..255, inputs outside 0..100 being clamped; and the colour is
\* (180, 60, 55) at 0, (200, 140, 55) at 60 and (68, 148, 68) at 100.
C20_NoJumpAt60 ==
  (call.fn = "_bar_color" /\ ret # NoCall) =>
    /\ ret.err = NoError
    /\ IsHexColor(ret.color)
    /\ \A k \in 1..3 : Channels(ret.color)[k] \in 0..255
    /\ call.pct <= 0 => Channels(ret.color) = <<180, 60, 55>>
    /\ call.pct = 600 => Channels(ret.color) = <<200, 140, 55>>
    /\ call.pct >= 1000 => Channels(ret.color) = <<68, 148, 68>>
    /\ call.pct = 599 =>
         Near(Channels(ret.color), Channels(bar_color(float_truediv(float(600), 10))))

\* _bar_color(59.9) has returned
C20_Witness ==
  /\ call.fn = "_bar_color"
  /\ call.pct = 599
  /\ ret # NoCall
  /\ ret.err = NoError

\* ------------------------------------------------------------------ C22
\* C22: the strict setter changes the bool of an existing leaf and nothing
\* else: whatever calls have run on a copy of the canonical tree, raising or
\* not, the copy has the leaf paths of the canonical tree and the same
\* count_tests at each of its categories; in particular a call whose last
\* segment names a category does not put a bool in its place.
C22_SetExistingKeepsShape ==
  \A impl \in Impls :
    report[impl] # NoTree =>
      /\ Leaves(heap, report[impl]) = Leaves(heap, all_tests_json)
      /\ \A p \in IdPaths \cup {<<>>} :
           IsDictAt(heap, all_tests_json, p) =>
             /\ IsDictAt(heap, report[impl], p)
             /\ count_tests(heap, At(heap, report[impl], p))
                  = count_tests(heap, At(heap, all_tests_json, p))

\* ------------------------------------------------------------------ C23
\* the two lists name the same identifiers, each a leaf of the canonical tree
C23_SameLeaves ==
  /\ call.fn = "apply_fails_to_perfect_report"
  /\ Lines(call.first) = Lines(call.second)
  /\ \A t \in Lines(call.first) : split(t, Dot) \in Leaves(heap, all_tests_json)

\* C23: two failure lists that name the same set of leaves of the canonical
\* tree, in whatever order and with whatever repetitions, leave the same
\* per-implementation tree, and so the same rows of the table.
C23_OrderAndRepetitionIgnored ==
  (C23_SameLeaves /\ ret # NoCall) =>
    /\ ret.first.err = ret.second.err
    /\ ret.first.tree = ret.second.tree
    /\ ret.first.rows = ret.second.rows

\* two different lists of the same leaves have been applied without an error and
\* have set a leaf to false
C23_Witness ==
  /\ C23_SameLeaves
  /\ call.first # call.second
  /\ ret # NoCall
  /\ ret.first.err = NoError
  /\ ret.second.err = NoError
  /\ \E p \in Leaves(heap, all_tests_json) :
       join(p, Dot) \in Lines(call.first) /\ ret.first.tree # TreeOf(heap, all_tests_json)

\* ------------------------------------------------------------------ C24
\* C24: an update that aborts on a document lacking a marker has written
\* nothing: the document is as it was and no badge file has been written,
\* whichever entry point ran the update.
C24_FailedUpdateWritesNothing ==
  [][(/\ runs' # runs
      /\ Last(runs').op = "update"
      /\ Last(runs').exit # 0
      /\ LacksMarker(readme))
     => (readme' = readme /\ Last(runs').badges = <<>>)]_vars

\* ------------------------------------------------------------------ C21
\* the double x is the quotient 100 * num / den (den > 0) up to a rounding
\* error: |x - 100 * num / den| <= 2^-40
C21_Close(x, num, den) ==
  LET shift == IF 0 - x.exp > 40 THEN 0 - x.exp ELSE 40
      a == big_mul(big_shl(x.man, x.exp + shift), big_from_int(den))
      b == big_shl(big_mul_small(big_from_int(IF num < 0 THEN 0 - num ELSE num), 100), shift)
      bound == big_shl(big_from_int(den), shift - 40)
      sameSign == x.man = <<>> \/ num = 0 \/ (x.neg <=> num < 0)
      diff == IF ~sameSign THEN big_add(a, b, 0)
              ELSE IF big_cmp(a, b) >= 0 THEN big_sub(a, b) ELSE big_sub(b, a)
  IN big_cmp(diff, bound) <= 0

\* the rule for a level, num / den of the percentage without the factor 100:
\* (total - failures - skipped * total / (TOTAL_REQUIRED + TOTAL_RECOMMENDED)) / total,
\* not below 0
C21_Expected(total, failures, skipped) ==
  LET all == TOTAL_REQUIRED + TOTAL_RECOMMENDED
      num == (total - failures) * all - skipped * total
  IN IF num < 0 THEN [num |-> 0, den |-> 1] ELSE [num |-> num, den |-> total * all]

\* the percentage is the one the rule gives for the level
C21_ByRule(x, total, failures, skipped) ==
  C21_Close(x, C21_Expected(total, failures, skipped).num,
            C21_Expected(total, failures, skipped).den)

\* C21: whichever generator writes the badges of the compared implementation,
\* its Required and Recommended percentages charge the level with its failures
\* and with its share skipped * total / (4267 + 1300) of the skipped tests, and
\* are not below 0.
C21_SkipsSharedByLevel ==
  (call.fn = "generate_badges" /\ ret # NoCall /\ call.zp_log # NoLog /\ ret.err = NoError) =>
    LET zp == result_of_log(call.zp_log).result
    IN /\ C21_ByRule(ret.badges["zig_protobuf_required"],
                     TOTAL_REQUIRED, failed_by_req(zp, Required), zp.skipped)
       /\ C21_ByRule(ret.badges["zig_protobuf_recommended"],
                     TOTAL_RECOMMENDED, failed_by_req(zp, Recommended), zp.skipped)

\* ------------------------------------------------------------------ C25
\* 0 <= x <= most
C25_InRange(x, most) ==
  float_cmp(float(0), x) <= 0 /\ float_cmp(x, float(most)) <= 0

\* C25: whatever the failure lines and the summary counters of the logs, every
\* percentage generate_badges computes lies in [0, 100], the width of the
\* coloured bar written for it lies in [0, 120], and the overall percentage is
\* 0 when no test was run.
C25_PercentagesInRange ==
  (call.fn = "generate_badges" /\ ret # NoCall /\ ret.err = NoError) =>
    /\ \A n \in DOMAIN ret.badges :
         C25_InRange(ret.badges[n], 100) /\ C25_InRange(ret.files[n].bar_width, BADGE_WIDTH)
    /\ LET result == result_of_log(call.log).result
       IN result.num_passed + num_failed(result) = 0 => ret.badges["overall"] = float(0)

====
